---- MODULE Spec2Model ----
(***************************************************************************)
(* A model of git-iris: the configuration record, its load and its update, *)
(* the changelog / release-notes prompt assembly, the range walk of the     *)
(* repository probe, the staged-file status scan, the gen command of main,  *)
(* the debug log, the project-metadata walk, the readme search, the TOML    *)
(* analyzer and the single update call of the config command.               *)
(*                                                                          *)
(* Conventions.                                                             *)
(*   Option<T>     : << >> is None, <<v>> is Some(v).                       *)
(*   HashMap<K,V>  : a function whose DOMAIN is the set of keys.            *)
(*   prompt String : a sequence of pieces, one per push_str / format! of    *)
(*                   the source; a piece is [fmt |-> the format string,     *)
(*                   args |-> the formatted arguments], each argument a     *)
(*                   sequence of tokens (a usize is its decimal digits).    *)
(*   path / diff   : a sequence of one-character strings, where the code    *)
(*                   searches inside the text.                              *)
(***************************************************************************)
EXTENDS Integers, Sequences, FiniteSets, TLC

VARIABLES
    flow,           \* the part of the program this run exercises
    config,         \* the Config value in memory
    cfgOutcome,     \* how the last Config call ended
    updateCalls,    \* the calls of Config::update so far
    systemPrompt,   \* the system prompt built from config (<<>>: none yet)
    systemTask,     \* the task the system prompt was built for
    walk,           \* the range walk the backend yields, newest first
    detail_level,   \* DetailLevel of the invocation
    readme_summary, \* Option<&str>
    clPc,           \* position of the changelog flow
    commits,        \* Result<Vec<AnalyzedChange>> of get_commits_between
    userPrompt,     \* the changelog user prompt
    releasePrompt,  \* the release-notes user prompt
    statuses,       \* the status entries the backend yields
    stPc,           \* position of the status scan
    fileStatuses,   \* Result<(Vec<StagedFile>, Vec<String>)>
    diffReads,      \* paths whose diff was read by get_diff_for_file
    genEnv,         \* the gen command: its arguments and what it will meet
    genPc,          \* position of main in the gen arm
    genExit,        \* exit status of the process (-1: still running)
    providerCalls,  \* calls of llm::get_refined_message so far
    generated_message, \* Option: the text the provider returned
    repoCommits,    \* messages of the commits git::commit created
    genOut,         \* what main printed, one element per print call
    logFileState,   \* LOG_FILE: "unopened", "open" or "failed" (Lazy)
    logMutex,       \* Option: the thread holding the MutexGuard
    logFile,        \* the bytes of git-iris-debug.log, each with its writer
    logPc,          \* per thread: position inside logger::log
    logRecord,      \* per thread: log_message of the call in progress
    logWritten,     \* per thread: bytes of log_message written so far
    logCalls,       \* per thread: calls of logger::log begun
    logClock,       \* Local::now(), as a count of clock readings
    mdPc,           \* position of get_project_metadata
    combined_metadata, \* ProjectMetadata built by get_project_metadata
    mdLastMerge,    \* Option: the arguments of the latest merge_metadata
    mdVisited,      \* paths the WalkDir iterator has yielded
    mdRead,         \* paths read by std::fs::read_to_string
    mdMerged,       \* paths whose metadata was merged
    configFile,     \* the configuration file Config::load will meet
    loadResult,     \* Result<Config> of Config::load
    readmeFiles,    \* per readme pattern: what repo_path holds under it
    readmeResult,   \* Result<Option<String>> of find_and_read_readme
    tomlInput,      \* the (file, change) TomlAnalyzer::analyze is given
    tomlCalls,      \* calls of TomlAnalyzer::analyze so far
    tomlResult,     \* Vec<String> of the latest call
    frameOld,       \* the Config a process loaded, before its update call
    frameArgs,      \* Option: the arguments of that call of Config::update
    frameNew        \* the Config the call left, and how it ended

genVars  == <<genEnv, genPc, genExit, providerCalls, generated_message,
              repoCommits, genOut>>
logVars  == <<logFileState, logMutex, logFile, logPc, logRecord, logWritten,
              logCalls, logClock>>
mdVars   == <<mdPc, combined_metadata, mdLastMerge, mdVisited, mdRead,
              mdMerged>>
loadVars == <<configFile, loadResult>>
rdVars   == <<readmeFiles, readmeResult>>
tomlVars == <<tomlInput, tomlCalls, tomlResult>>
frameVars == <<frameOld, frameArgs, frameNew>>

cfgVars == <<config, cfgOutcome, updateCalls, systemPrompt, systemTask>>
clVars  == <<walk, detail_level, readme_summary, clPc, commits, userPrompt,
             releasePrompt>>
stVars  == <<statuses, stPc, fileStatuses, diffReads>>

\* The variables of the gen command, the logger, the metadata walk, the
\* configuration load, the readme search, the TOML analyzer and the single
\* update call of the config command.
auxVars == <<genVars, logVars, mdVars, loadVars, rdVars, tomlVars, frameVars>>

vars == <<flow, cfgVars, clVars, stVars, auxVars>>

---------------------------------------------------------------------------
(* Generic helpers *)

None == << >>
Some(v) == <<v>>
IsSome(o) == Len(o) = 1
Unwrap(o) == o[1]

EmptyMap == [k \in {} |-> ""]

\* HashMap::extend: every pair of new is inserted, overwriting an equal key.
Extend(old, new) ==
    [k \in (DOMAIN old) \cup (DOMAIN new) |->
        IF k \in DOMAIN new THEN new[k] ELSE old[k]]

\* HashMap::insert of one pair.
Insert(map, key, value) ==
    [k \in (DOMAIN map) \cup {key} |-> IF k = key THEN value ELSE map[k]]

---------------------------------------------------------------------------
(* Config (config.rs) *)

MaxUpdates == 2

\* ProviderRegistry::default().get_default_model: the registry holds the two
\* providers Config::default builds entries for.
RegisteredProviders == {"openai", "claude"}

get_default_model(provider) ==
    IF provider = "openai" THEN Some("openai-default-model")
    ELSE IF provider = "claude" THEN Some("claude-default-model")
    ELSE None

\* ProviderConfig::default_for; it panics when the registry has no model.
default_for_panics(provider) == ~IsSome(get_default_model(provider))

default_for(provider) ==
    [api_key |-> "",
     model |-> Unwrap(get_default_model(provider)),
     additional_params |-> EmptyMap,
     custom_token_limit |-> None]

\* impl Default for Config
ConfigDefault ==
    [default_provider |-> "openai",
     providers |-> Insert(Insert(EmptyMap, "openai", default_for("openai")),
                          "claude", default_for("claude")),
     use_gitmoji |-> FALSE,
     custom_instructions |-> ""]

\* Config::load: a missing file gives the default; a file gives whatever it
\* holds: any default_provider and any providers table, also one without the
\* default provider's entry.
LoadedConfigs ==
    { [default_provider |-> d,
       providers |-> [p \in S |-> default_for(p)],
       use_gitmoji |-> FALSE,
       custom_instructions |-> ""] :
         d \in RegisteredProviders, S \in SUBSET RegisteredProviders }

LoadableConfigs == {ConfigDefault} \cup LoadedConfigs

\* Config::update, lines 93-99, were the entry of the named provider built
\* anew on every call.
update_provider_resetting(self, provider) ==
    IF IsSome(provider)
    THEN [self EXCEPT
            !.default_provider = Unwrap(provider),
            !.providers =
                Insert(self.providers, Unwrap(provider),
                       default_for(Unwrap(provider)))]
    ELSE self

\* Config::update, lines 93-99: the provider argument.
update_provider(self, provider) ==
    IF IsSome(provider)
    THEN [self EXCEPT
            !.default_provider = Unwrap(provider),
            !.providers =
                IF Unwrap(provider) \in DOMAIN self.providers
                THEN self.providers
                ELSE Insert(self.providers, Unwrap(provider),
                            default_for(Unwrap(provider)))]
    ELSE self

\* Config::update, lines 103-120: the fields of the default provider's entry.
update_entry(pc, api_key, model, additional_params, token_limit) ==
    [api_key |-> IF IsSome(api_key) THEN Unwrap(api_key) ELSE pc.api_key,
     model |-> IF IsSome(model) THEN Unwrap(model) ELSE pc.model,
     additional_params |->
        IF IsSome(additional_params)
        THEN Extend(pc.additional_params, Unwrap(additional_params))
        ELSE pc.additional_params,
     custom_token_limit |->
        IF IsSome(token_limit) THEN Some(Unwrap(token_limit))
        ELSE pc.custom_token_limit]

\* Config::update as a whole: the Config it leaves and how the call ended.
\* A panic in default_for comes after default_provider was assigned (line 94);
\* the unwrap of line 101 panics before any field is written.
update(self, provider, api_key, model, additional_params, use_gitmoji, custom_instructions, token_limit) ==
    IF IsSome(provider) /\ Unwrap(provider) \notin DOMAIN self.providers
       /\ default_for_panics(Unwrap(provider))
    THEN [config |-> [self EXCEPT !.default_provider = Unwrap(provider)],
          outcome |-> "panic_default_for"]
    ELSE LET s1 == update_provider(self, provider) IN
         IF s1.default_provider \notin DOMAIN s1.providers
         THEN [config |-> s1, outcome |-> "panic_unwrap_none"]
         ELSE [config |->
                 [s1 EXCEPT
                    !.providers[s1.default_provider] =
                        update_entry(s1.providers[s1.default_provider],
                                     api_key, model, additional_params,
                                     token_limit),
                    !.use_gitmoji =
                        IF IsSome(use_gitmoji) THEN Unwrap(use_gitmoji)
                        ELSE s1.use_gitmoji,
                    !.custom_instructions =
                        IF IsSome(custom_instructions)
                        THEN Unwrap(custom_instructions)
                        ELSE s1.custom_instructions],
               outcome |-> "returned"]

\* The arguments a caller can pass to Config::update.
ProviderArgs == {None, Some("openai"), Some("claude"), Some("unregistered")}
ApiKeyArgs == {None, Some("sk-key")}
ModelArgs == {None, Some("custom-model")}
ParamArgs == {None, Some([k \in {"temperature"} |-> "0.7"])}
GitmojiArgs == {None, Some(TRUE), Some(FALSE)}
InstructionArgs == {None, Some("Be brief")}
TokenLimitArgs == {None, Some(0), Some(4000)}

---------------------------------------------------------------------------
(* Text: pieces of a prompt and the formatting of numbers *)

\* A plain string argument of format!("{}").
Txt(s) == <<s>>

Digits == <<"0", "1", "2", "3", "4", "5", "6", "7", "8", "9">>

\* format!("{}", n) of a usize: its decimal digits, most significant first.
RECURSIVE Dec(_)
Dec(n) ==
    IF n < 10 THEN <<Digits[n + 1]>>
    ELSE Dec(n \div 10) \o <<Digits[(n % 10) + 1]>>

\* format!("{:.2}", x) of an impact score given in hundredths.
Fmt2(h) ==
    Dec(h \div 100) \o <<".">> \o
    <<Digits[((h % 100) \div 10) + 1], Digits[(h % 10) + 1]>>

\* push_str(literal) and push_str(&format!(fmt, args...)).
P0(fmt) == [fmt |-> fmt, args |-> << >>]
P1(fmt, a) == [fmt |-> fmt, args |-> <<a>>]
P2(fmt, a, b) == [fmt |-> fmt, args |-> <<a, b>>]
P3(fmt, a, b, c) == [fmt |-> fmt, args |-> <<a, b, c>>]

---------------------------------------------------------------------------
(* System prompts (changelog_prompts.rs) *)

\* gitmoji::get_gitmoji_list: the table, an opaque text.
get_gitmoji_list == <<"gitmoji-table">>

ChangelogSystemText ==
    "You are an AI assistant specialized in generating clear, concise, and informative changelogs ... 18. NO YAPPING!"
ChangelogEmojiText ==
    "\n\nWhen generating the changelog, include tasteful, appropriate, and intelligent use of emojis ... you can use:\n"
ChangelogSystemTrailer ==
    "\n\nYou will be provided with detailed information about each change ... (Minimal, Standard, or Detailed)."
ReleaseNotesSystemText ==
    "You are an AI assistant specialized in generating comprehensive and user-friendly release notes ... 14. NO YAPPING!"
ReleaseNotesEmojiText ==
    "\n\nWhen generating the release notes, include tasteful, appropriate, and intelligent use of emojis ... you can use:\n"
AdditionalInstructionsFmt == "\n\nAdditional instructions:\n{}\n\n"

\* The options with the user's instructions pushed before the emoji section.
system_prompt_options_reordered(cfg, emojiText) ==
    (IF cfg.custom_instructions # ""
     THEN <<P1(AdditionalInstructionsFmt, Txt(cfg.custom_instructions))>>
     ELSE << >>)
    \o
    (IF cfg.use_gitmoji
     THEN <<P0(emojiText), P1("{}", get_gitmoji_list)>>
     ELSE << >>)

\* The part both system prompts share: the emoji section, then the user's
\* instructions.
system_prompt_options(cfg, emojiText) ==
    (IF cfg.use_gitmoji
     THEN <<P0(emojiText), P1("{}", get_gitmoji_list)>>
     ELSE << >>)
    \o
    (IF cfg.custom_instructions # ""
     THEN <<P1(AdditionalInstructionsFmt, Txt(cfg.custom_instructions))>>
     ELSE << >>)

create_changelog_system_prompt(cfg) ==
    <<P0(ChangelogSystemText)>>
    \o system_prompt_options(cfg, ChangelogEmojiText)
    \o <<P0(ChangelogSystemTrailer)>>

create_release_notes_system_prompt(cfg) ==
    <<P0(ReleaseNotesSystemText)>>
    \o system_prompt_options(cfg, ReleaseNotesEmojiText)

---------------------------------------------------------------------------
(* The repository of the changelog flow and the Change Analyzer *)

MaxWalk == 3

FromRev == "v1.0"
ToRev == "HEAD"

\* The commits a range walk can meet: what the backend holds of each.
\* c1 and c2 are the two commits of the changelog scenario (add src/x with
\* +10, then modify src/x with +2/-1); c3 touches two files; c4 is an empty
\* commit.
CommitIds == {"c1", "c2", "c3", "c4"}

RawFile(path, change_type, ins, del, analysis) ==
    [path |-> path, change_type |-> change_type, insertions |-> ins,
     deletions |-> del, analysis |-> analysis]

RawCommit(oid) ==
    CASE oid = "c1" ->
           [author |-> "alice", message |-> "Add x", impact |-> 42,
            files |-> <<RawFile("src/x", "Added", 10, 0, << >>)>>]
      [] oid = "c2" ->
           [author |-> "bob", message |-> "Tune x", impact |-> 7,
            files |-> <<RawFile("src/x", "Modified", 2, 1,
                                <<"Function modified">>)>>]
      [] oid = "c3" ->
           [author |-> "alice", message |-> "Bump deps", impact |-> 100,
            files |-> <<RawFile("Cargo.toml", "Modified", 1, 1,
                                <<"Dependencies updated", "Version changed">>),
                        RawFile("README.md", "Added", 3, 0, << >>)>>]
      [] OTHER ->
           [author |-> "carol", message |-> "Empty", impact |-> 0,
            files |-> << >>]

RECURSIVE SumOver(_, _)
SumOver(files, field) ==
    IF files = << >> THEN 0
    ELSE files[1][field] + SumOver(Tail(files), field)

\* ChangeAnalyzer::analyze_commit: metrics from the commit's file entries,
\* the annotated file changes in the backend's order, the impact score.
analyze_commit(oid) ==
    LET raw == RawCommit(oid)
        ins == SumOver(raw.files, "insertions")
        del == SumOver(raw.files, "deletions")
    IN [commit_hash |-> oid,
        author |-> raw.author,
        commit_message |-> raw.message,
        metrics |-> [files_changed |-> Len(raw.files),
                     insertions |-> ins,
                     deletions |-> del,
                     total_lines_changed |-> ins + del],
        file_changes |->
            [i \in 1..Len(raw.files) |->
                [new_path |-> raw.files[i].path,
                 change_type |-> raw.files[i].change_type,
                 analysis |-> raw.files[i].analysis]],
        impact_score |-> raw.impact]

\* What the backend does with one entry of the walk: the revwalk item is an
\* error, the commit cannot be looked up, its analysis fails, or all succeed.
WalkOutcomes == {"ok", "revwalk_err", "find_commit_err", "analyze_err"}

Range(q) == { q[i] : i \in 1..Len(q) }

\* The sequences of at most n elements of S, none twice.
RECURSIVE DistinctSeqs(_, _)
DistinctSeqs(S, n) ==
    IF n = 0 THEN {<< >>}
    ELSE LET shorter == DistinctSeqs(S, n - 1) IN
         shorter \cup
         UNION { { Append(q, x) : x \in S \ Range(q) } :
                     q \in {r \in shorter : Len(r) = n - 1} }

\* A walk: every commit at most once (a revwalk yields no commit twice),
\* each entry with its outcome.
WalkOf(ids, outcomes) ==
    [i \in 1..Len(ids) |-> [oid |-> ids[i], outcome |-> outcomes[i]]]

WalkIds == DistinctSeqs(CommitIds, MaxWalk)

---------------------------------------------------------------------------
(* The range walk (git.rs) *)

Ok(v) == [tag |-> "Ok", val |-> v]
Err(e) == [tag |-> "Err", val |-> <<e>>]
NoResult == [tag |-> "none", val |-> << >>]

\* Lines 69-73: the three filter_map steps keep an entry only when the
\* revwalk item, the lookup and the analysis all succeed, and collect the
\* analyses of the kept entries in the walk's order.
RECURSIVE analyzed_commits(_)
analyzed_commits(w) ==
    IF w = << >> THEN << >>
    ELSE (IF w[1].outcome = "ok" THEN <<analyze_commit(w[1].oid)>>
          ELSE << >>)
         \o analyzed_commits(Tail(w))

\* get_commits_between: opening the repository, resolving from and to and
\* setting up the revwalk end the call with an error (the ? operator); the
\* walk itself always ends Ok.
get_commits_between(setupOk, w) ==
    IF ~setupOk THEN Err("backend")
    ELSE Ok(analyzed_commits(w))

---------------------------------------------------------------------------
(* Metrics Aggregator and user prompts (changelog_prompts.rs) *)

DetailLevels == {"Minimal", "Standard", "Detailed"}

ZeroMetrics ==
    [files_changed |-> 0, insertions |-> 0, deletions |-> 0,
     total_lines_changed |-> 0]

\* A fold that assigns files_changed where the code adds to it.
add_metrics_assigning(acc, change) ==
    [files_changed |-> change.metrics.files_changed,
     insertions |-> acc.insertions + change.metrics.insertions,
     deletions |-> acc.deletions + change.metrics.deletions,
     total_lines_changed |->
        acc.total_lines_changed + change.metrics.total_lines_changed]

\* The closure of the fold, lines 264-270.
add_metrics(acc, change) ==
    [files_changed |-> acc.files_changed + change.metrics.files_changed,
     insertions |-> acc.insertions + change.metrics.insertions,
     deletions |-> acc.deletions + change.metrics.deletions,
     total_lines_changed |->
        acc.total_lines_changed + change.metrics.total_lines_changed]

RECURSIVE FoldMetrics(_, _)
FoldMetrics(acc, changes) ==
    IF changes = << >> THEN acc
    ELSE FoldMetrics(add_metrics(acc, changes[1]), Tail(changes))

\* Totals that count each file of the range once.
calculate_total_metrics_distinct(changes) ==
    [FoldMetrics(ZeroMetrics, changes) EXCEPT
        !.files_changed =
            Cardinality(UNION { { changes[k].file_changes[i].new_path :
                                    i \in 1..Len(changes[k].file_changes) } :
                                k \in 1..Len(changes) })]

calculate_total_metrics(changes) == FoldMetrics(ZeroMetrics, changes)

\* The format strings of create_changelog_user_prompt.
ChangelogIntroFmt ==
    "Based on the following changes from {} to {}, generate a changelog:\n\n"
OverallFmt == "Overall Changes:\n"
TotalCommitsFmt == "Total commits: {}\n"
FilesChangedFmt == "Files changed: {}\n"
TotalLinesFmt == "Total lines changed: {}\n"
InsertionsFmt == "Insertions: {}\n"
DeletionsFmt == "Deletions: {}\n"
BlankFmt == "\n"
CommitFmt == "Commit: {}\n"
AuthorFmt == "Author: {}\n"
MessageFmt == "Message: {}\n"
LinesChangedFmt == "Lines changed: {}\n"
ImpactFmt == "Impact score: {:.2}\n"
FileSummaryFmt == "File changes summary:\n"
DetailedFilesFmt == "Detailed file changes:\n"
FileLineFmt == "  - {} ({})\n"
AnalysisLineFmt == "    * {}\n"
ReadmeHeaderFmt == "\nProject README Summary:\n"
ReadmeTailFmt == "\n\n"
ChangelogClosingFmt ==
    "Please generate a {} changelog for the changes from {} to {}, focusing on the most significant updates and their impact on the project. "
ClosingGroupFmt == "Group the changes by type and order them by significance. "
ClosingDescribeFmt ==
    "For each change, provide a clear description of what was changed and, where possible, why it matters to users or developers. "
ClosingMetricsFmt ==
    "Include the overall metrics at the beginning of the changelog to give context about the scope of changes in this release."
ChangelogReadmeFmt ==
    " Use the README summary to provide context about the project and ensure the changelog reflects the project's goals and main features."

\* A match with the words of Minimal and Standard exchanged.
tone_exchanged(level) ==
    CASE level = "Minimal" -> "comprehensive"
      [] level = "Standard" -> "concise"
      [] OTHER -> "highly detailed"

\* The match on detail_level of lines 137-141 and 220-224.
tone(level) ==
    CASE level = "Minimal" -> "concise"
      [] level = "Standard" -> "comprehensive"
      [] OTHER -> "highly detailed"

\* A block that reports the insertions as deletions and the deletions as
\* insertions.
overall_block_swapped(changes) ==
    LET total_metrics == calculate_total_metrics(changes) IN
    <<P0(OverallFmt),
      P1(TotalCommitsFmt, Dec(Len(changes))),
      P1(FilesChangedFmt, Dec(total_metrics.files_changed)),
      P1(TotalLinesFmt, Dec(total_metrics.total_lines_changed)),
      P1(InsertionsFmt, Dec(total_metrics.deletions)),
      P1(DeletionsFmt, Dec(total_metrics.insertions)),
      P0(BlankFmt)>>

\* Lines 72-82.
overall_block(changes) ==
    LET total_metrics == calculate_total_metrics(changes) IN
    <<P0(OverallFmt),
      P1(TotalCommitsFmt, Dec(Len(changes))),
      P1(FilesChangedFmt, Dec(total_metrics.files_changed)),
      P1(TotalLinesFmt, Dec(total_metrics.total_lines_changed)),
      P1(InsertionsFmt, Dec(total_metrics.insertions)),
      P1(DeletionsFmt, Dec(total_metrics.deletions)),
      P0(BlankFmt)>>

file_line(file_change) ==
    P2(FileLineFmt, Txt(file_change.new_path), Txt(file_change.change_type))

RECURSIVE standard_files(_)
standard_files(file_changes) ==
    IF file_changes = << >> THEN << >>
    ELSE <<file_line(file_changes[1])>> \o standard_files(Tail(file_changes))

RECURSIVE detailed_files(_)
detailed_files(file_changes) ==
    IF file_changes = << >> THEN << >>
    ELSE <<file_line(file_changes[1])>>
         \o [i \in 1..Len(file_changes[1].analysis) |->
                P1(AnalysisLineFmt, Txt(file_changes[1].analysis[i]))]
         \o detailed_files(Tail(file_changes))

\* A match whose Standard arm lists the observations too.
detail_section_observing(change, level) ==
    CASE level = "Minimal" -> << >>
      [] level = "Standard" ->
           <<P0(FileSummaryFmt)>> \o detailed_files(change.file_changes)
      [] OTHER ->
           <<P0(DetailedFilesFmt)>> \o detailed_files(change.file_changes)

\* Lines 100-125.
detail_section(change, level) ==
    CASE level = "Minimal" -> << >>
      [] level = "Standard" ->
           <<P0(FileSummaryFmt)>> \o standard_files(change.file_changes)
      [] OTHER ->
           <<P0(DetailedFilesFmt)>> \o detailed_files(change.file_changes)

\* Lines 85-127: the block of one commit.
commit_block(change, level) ==
    <<P1(CommitFmt, Txt(change.commit_hash)),
      P1(AuthorFmt, Txt(change.author)),
      P1(MessageFmt, Txt(change.commit_message)),
      P1(FilesChangedFmt, Dec(change.metrics.files_changed)),
      P1(LinesChangedFmt, Dec(change.metrics.total_lines_changed)),
      P1(InsertionsFmt, Dec(change.metrics.insertions)),
      P1(DeletionsFmt, Dec(change.metrics.deletions)),
      P1(ImpactFmt, Fmt2(change.impact_score))>>
    \o detail_section(change, level)
    \o <<P0(BlankFmt)>>

\* A loop that walks the changes from the last to the first.
RECURSIVE commit_blocks_reversed(_, _)
commit_blocks_reversed(changes, level) ==
    IF changes = << >> THEN << >>
    ELSE commit_blocks_reversed(Tail(changes), level)
         \o commit_block(changes[1], level)

\* Line 84: the loop over the changes, in their order.
RECURSIVE commit_blocks(_, _)
commit_blocks(changes, level) ==
    IF changes = << >> THEN << >>
    ELSE commit_block(changes[1], level)
         \o commit_blocks(Tail(changes), level)

create_changelog_user_prompt(changes, level, from, to, readme) ==
    <<P2(ChangelogIntroFmt, Txt(from), Txt(to))>>
    \o overall_block(changes)
    \o commit_blocks(changes, level)
    \o (IF IsSome(readme)
        THEN <<P0(ReadmeHeaderFmt), P1("{}", Txt(Unwrap(readme))),
               P0(ReadmeTailFmt)>>
        ELSE << >>)
    \o <<P3(ChangelogClosingFmt, Txt(tone(level)), Txt(from), Txt(to)),
         P0(ClosingGroupFmt), P0(ClosingDescribeFmt), P0(ClosingMetricsFmt)>>
    \o (IF IsSome(readme) THEN <<P0(ChangelogReadmeFmt)>> ELSE << >>)

\* The format strings of create_release_notes_user_prompt.
ReleaseIntroFmt ==
    "Based on the following changelog for changes from {} to {}, generate release notes:\n\n"
ReleaseReadmeHeaderFmt == "\n\nProject README Summary:\n"
ReleaseClosingFmt ==
    "\n\nPlease generate {} release notes for the changes from {} to {} based on this changelog and project summary. "
ReleaseSummaryFmt ==
    "Include a high-level summary of the release, major changes, and any breaking changes or important upgrade notes. "
ReleaseImpactFmt ==
    "Focus on the impact and benefits of the changes to users and developers. "
ReleaseMetricsFmt ==
    "Incorporate the overall metrics to give context about the scope of this release. "
ReleaseReadmeFmt ==
    " Ensure the release notes align with the project's overall goals and main features as described in the README summary."

\* Lines 235-247.
release_detail_sentence(level) ==
    CASE level = "Minimal" ->
           "Keep the release notes brief and focused on the most significant changes."
      [] level = "Standard" ->
           "Provide a balanced overview of all important changes, with some details on major features or fixes."
      [] OTHER ->
           "Include detailed explanations of changes, their rationale, and potential impact on the project or workflow."

create_release_notes_user_prompt(changelog, level, from, to, readme) ==
    <<P2(ReleaseIntroFmt, Txt(from), Txt(to)), P1("{}", Txt(changelog))>>
    \o (IF IsSome(readme)
        THEN <<P0(ReleaseReadmeHeaderFmt), P1("{}", Txt(Unwrap(readme)))>>
        ELSE << >>)
    \o <<P3(ReleaseClosingFmt, Txt(tone(level)), Txt(from), Txt(to)),
         P0(ReleaseSummaryFmt), P0(ReleaseImpactFmt), P0(ReleaseMetricsFmt),
         P0(release_detail_sentence(level))>>
    \o (IF IsSome(readme) THEN <<P0(ReleaseReadmeFmt)>> ELSE << >>)

---------------------------------------------------------------------------
(* The staged-file status scan (git.rs) *)

MaxEntries == 2

\* Texts the code searches in, one character per element.
PathMainRs == \* src/main.rs
    <<"s", "r", "c", "/", "m", "a", "i", "n", ".", "r", "s">>
PathCargoToml == \* Cargo.toml
    <<"C", "a", "r", "g", "o", ".", "t", "o", "m", "l">>
PathCargoLock == \* Cargo.lock
    <<"C", "a", "r", "g", "o", ".", "l", "o", "c", "k">>
PathNodeModule == \* node_modules/a.js
    <<"n", "o", "d", "e", "_", "m", "o", "d", "u", "l", "e", "s", "/", "a",
      ".", "j", "s">>
PathBuildRs == \* src/build.rs
    <<"s", "r", "c", "/", "b", "u", "i", "l", "d", ".", "r", "s">>
PathGitignore == \* .gitignore
    <<".", "g", "i", "t", "i", "g", "n", "o", "r", "e">>
PathLogoPng == \* logo.png
    <<"l", "o", "g", "o", ".", "p", "n", "g">>

\* The working tree's paths, in the order the backend lists them (sorted).
Paths ==
    <<PathGitignore, PathCargoLock, PathCargoToml, PathLogoPng,
      PathNodeModule, PathBuildRs, PathMainRs>>

ContentExcluded == \* [Content excluded]
    <<"[", "C", "o", "n", "t", "e", "n", "t", " ", "e", "x", "c", "l", "u",
      "d", "e", "d", "]">>
BinaryFileChanged == \* [Binary file changed]
    <<"[", "B", "i", "n", "a", "r", "y", " ", "f", "i", "l", "e", " ", "c",
      "h", "a", "n", "g", "e", "d", "]">>
BinaryFilesMarker == \* Binary files
    <<"B", "i", "n", "a", "r", "y", " ", "f", "i", "l", "e", "s">>
GitBinaryPatchMarker == \* GIT binary patch
    <<"G", "I", "T", " ", "b", "i", "n", "a", "r", "y", " ", "p", "a", "t",
      "c", "h">>
CargoTomlName == \* Cargo.toml
    <<"C", "a", "r", "g", "o", ".", "t", "o", "m", "l">>
TomlExtension == \* .toml
    <<".", "t", "o", "m", "l">>
DependenciesMarker == \* [dependencies]
    <<"[", "d", "e", "p", "e", "n", "d", "e", "n", "c", "i", "e", "s", "]">>
VersionMarker == \* version =
    <<"v", "e", "r", "s", "i", "o", "n", " ", "=">>

\* The text the backend prints as the staged diff of each path.
BackendDiff(path) ==
    CASE path = PathMainRs ->
           <<"+", "f", "n", " ", "m", "a", "i", "n">>
      [] path = PathCargoToml ->
           <<"+", "[", "d", "e", "p", "e", "n", "d", "e", "n", "c", "i",
             "e", "s", "]">>
      [] path = PathCargoLock ->
           <<"+", "v", "e", "r", "s", "i", "o", "n", " ", "=", " ", "1">>
      [] path = PathNodeModule ->
           <<"+", "x", "=", "1">>
      [] path = PathBuildRs ->
           <<"+", "f", "n", " ", "b">>
      [] path = PathGitignore ->
           <<"+", "t", "m", "p">>
      [] OTHER ->
           <<"B", "i", "n", "a", "r", "y", " ", "f", "i", "l", "e", "s",
             " ", "d", "i", "f", "f", "e", "r">>

\* exclude_patterns, lines 79-99: each regex is a literal (\. is a dot),
\* searched anywhere in the path.
exclude_patterns ==
    <<<<".", "g", "i", "t">>,
      <<".", "s", "v", "n">>,
      <<".", "h", "g">>,
      <<".", "D", "S", "_", "S", "t", "o", "r", "e">>,
      <<"n", "o", "d", "e", "_", "m", "o", "d", "u", "l", "e", "s">>,
      <<"t", "a", "r", "g", "e", "t">>,
      <<"b", "u", "i", "l", "d">>,
      <<"d", "i", "s", "t">>,
      <<".", "v", "s", "c", "o", "d", "e">>,
      <<".", "i", "d", "e", "a">>,
      <<".", "v", "s">>,
      <<"p", "a", "c", "k", "a", "g", "e", "-", "l", "o", "c", "k", ".", "j", "s",
  "o", "n">>,
      <<".", "l", "o", "c", "k">>,
      <<".", "l", "o", "g">>,
      <<".", "t", "m", "p">>,
      <<".", "t", "e", "m", "p">>,
      <<".", "s", "w", "p">>,
      <<".", "m", "i", "n", ".", "j", "s">>>>

\* str::contains and str::ends_with.
contains(text, pat) ==
    \E i \in 1..(Len(text) - Len(pat) + 1) :
        SubSeq(text, i, i + Len(pat) - 1) = pat

ends_with(text, pat) ==
    /\ Len(pat) <= Len(text)
    /\ SubSeq(text, Len(text) - Len(pat) + 1, Len(text)) = pat

\* Lines 101-107: the first matching pattern excludes the path.
should_exclude_file(path) ==
    \E k \in 1..Len(exclude_patterns) : contains(path, exclude_patterns[k])

is_binary_diff(diff) ==
    contains(diff, BinaryFilesMarker) \/ contains(diff, GitBinaryPatchMarker)

\* get_diff_for_file once the backend has printed the patch.
get_diff_for_file(path) ==
    IF is_binary_diff(BackendDiff(path)) THEN BinaryFileChanged
    ELSE BackendDiff(path)

\* toml.rs, line 23 with the [dependencies] test alone.
has_dependency_changes_table_only(diff) ==
    contains(diff, DependenciesMarker)

\* toml.rs
has_dependency_changes(diff) ==
    contains(diff, DependenciesMarker) \/ contains(diff, VersionMarker)

toml_analyze(file, diff) ==
    IF ends_with(file, CargoTomlName) /\ has_dependency_changes(diff)
    THEN <<"Dependencies updated">>
    ELSE << >>

\* file_analyzers::get_analyzer and analyze: the TOML analyzer for a .toml
\* path, the default analyzer (no observation) for every other path.
analyze(path, diff) ==
    IF ends_with(path, TomlExtension) THEN toml_analyze(path, diff)
    ELSE << >>

\* The status flags of one entry.
is_index_new(st) == "INDEX_NEW" \in st
is_index_modified(st) == "INDEX_MODIFIED" \in st
is_index_deleted(st) == "INDEX_DELETED" \in st
is_wt_modified(st) == "WT_MODIFIED" \in st
is_wt_new(st) == "WT_NEW" \in st
is_wt_deleted(st) == "WT_DELETED" \in st

\* Lines 123-129 without the final else: a deletion reported as Modified.
staged_change_type_no_deleted(st) ==
    IF is_index_new(st) THEN "Added" ELSE "Modified"

\* Lines 123-129.
staged_change_type(st) ==
    IF is_index_new(st) THEN "Added"
    ELSE IF is_index_modified(st) THEN "Modified"
    ELSE "Deleted"

\* A StagedFile whose analysis is the analyzer's also when the file is
\* excluded.
staged_file_analysed(path, st, should_exclude, diff) ==
    [path |-> path,
     change_type |-> staged_change_type(st),
     diff |-> IF should_exclude THEN ContentExcluded ELSE diff,
     analysis |-> analyze(path, diff),
     content_excluded |-> should_exclude]

\* Lines 131-158: the StagedFile pushed for a staged entry whose diff, when
\* it is read, is diff.
staged_file(path, st, should_exclude, diff) ==
    [path |-> path,
     change_type |-> staged_change_type(st),
     diff |-> IF should_exclude THEN ContentExcluded ELSE diff,
     analysis |-> IF should_exclude THEN <<"[Analysis excluded]">>
                  ELSE analyze(path, diff),
     content_excluded |-> should_exclude]

\* Lines 118-162: the loop, from entry i on, with the lists built so far and
\* the paths whose diff was read. A diff the backend fails to produce ends
\* the scan with an error (the ? of line 135).
RECURSIVE scan_statuses(_, _, _, _, _)
scan_statuses(entries, i, staged, unstaged, reads) ==
    IF i > Len(entries)
    THEN [result |-> Ok([staged |-> staged, unstaged |-> unstaged]),
          reads |-> reads]
    ELSE LET e == entries[i]
             st == e.status
         IN
         IF is_index_new(st) \/ is_index_modified(st) \/ is_index_deleted(st)
         THEN IF should_exclude_file(e.path)
              THEN scan_statuses(entries, i + 1,
                       Append(staged,
                              staged_file(e.path, st, TRUE, << >>)),
                       unstaged, reads)
              ELSE IF ~e.diffOk
              THEN [result |-> Err("diff"), reads |-> reads \cup {e.path}]
              ELSE scan_statuses(entries, i + 1,
                       Append(staged,
                              staged_file(e.path, st, FALSE,
                                          get_diff_for_file(e.path))),
                       unstaged, reads \cup {e.path})
         ELSE IF is_wt_modified(st) \/ is_wt_new(st) \/ is_wt_deleted(st)
         THEN scan_statuses(entries, i + 1, staged,
                            Append(unstaged, e.path), reads)
         ELSE scan_statuses(entries, i + 1, staged, unstaged, reads)

\* get_file_statuses: repo.statuses fails, or the scan runs.
get_file_statuses(statusesOk, entries) ==
    IF ~statusesOk THEN [result |-> Err("statuses"), reads |-> {}]
    ELSE scan_statuses(entries, 1, << >>, << >>, {})

\* The status words the backend reports for an entry.
StatusWords ==
    { {"INDEX_NEW"}, {"INDEX_MODIFIED", "WT_MODIFIED"}, {"INDEX_DELETED"},
      {"WT_MODIFIED"}, {"WT_NEW"}, {"INDEX_RENAMED"} }

\* The path indexes in increasing order: the entries come sorted by path.
RECURSIVE SortedIdx(_)
SortedIdx(S) ==
    IF S = {} THEN << >>
    ELSE LET m == CHOOSE x \in S : \A y \in S : x <= y
         IN <<m>> \o SortedIdx(S \ {m})

\* A status list: the paths of S, each with its status words and with
\* whether the backend can produce its diff.
StatusListOf(S, words, diffOk) ==
    LET idx == SortedIdx(S)
    IN [i \in 1..Len(idx) |->
           [path |-> Paths[idx[i]], status |-> words[idx[i]],
            diffOk |-> diffOk[idx[i]]]]

PathSets ==
    { T \in SUBSET (1..Len(Paths)) : Cardinality(T) <= MaxEntries }

---------------------------------------------------------------------------
(* The state machine *)

ReadmeSummaries == {None, Some("A commit message generator")}

\* The changelog text the provider returned, opaque here.
GeneratedChangelog == "generated changelog"

IdleConfig ==
    /\ config = ConfigDefault
    /\ cfgOutcome = "idle"
    /\ updateCalls = 0
    /\ systemPrompt = << >>
    /\ systemTask = "none"

IdleChangelog ==
    /\ walk = << >>
    /\ detail_level = "Standard"
    /\ readme_summary = None
    /\ clPc = "idle"
    /\ commits = NoResult
    /\ userPrompt = << >>
    /\ releasePrompt = << >>

IdleStatus ==
    /\ statuses = << >>
    /\ stPc = "idle"
    /\ fileStatuses = NoResult
    /\ diffReads = {}

IdleGen ==
    /\ genEnv = << >>
    /\ genPc = "idle"
    /\ genExit = -1
    /\ providerCalls = << >>
    /\ generated_message = None
    /\ repoCommits = << >>
    /\ genOut = << >>

IdleLogger ==
    /\ logFileState = "unopened"
    /\ logMutex = None
    /\ logFile = << >>
    /\ logPc = << >>
    /\ logRecord = << >>
    /\ logWritten = << >>
    /\ logCalls = << >>
    /\ logClock = 0

IdleMetadata ==
    /\ mdPc = "idle"
    /\ combined_metadata = << >>
    /\ mdLastMerge = None
    /\ mdVisited = {}
    /\ mdRead = {}
    /\ mdMerged = {}

IdleLoad ==
    /\ configFile = << >>
    /\ loadResult = NoResult

IdleReadme ==
    /\ readmeFiles = << >>
    /\ readmeResult = NoResult

IdleToml ==
    /\ tomlInput = << >>
    /\ tomlCalls = 0
    /\ tomlResult = << >>

IdleFrame ==
    /\ frameOld = ConfigDefault
    /\ frameArgs = << >>
    /\ frameNew = [config |-> ConfigDefault, outcome |-> "idle"]

\* Config::load has run: the Config is the default or what the file held.
InitConfig ==
    /\ flow = "config"
    /\ config \in LoadableConfigs
    /\ cfgOutcome = "loaded"
    /\ updateCalls = 0
    /\ systemPrompt = << >>
    /\ systemTask = "none"
    /\ IdleChangelog
    /\ IdleStatus
    /\ IdleGen /\ IdleLogger /\ IdleMetadata
    /\ IdleLoad /\ IdleReadme /\ IdleToml
    /\ IdleFrame

\* The changelog / release-notes command: the repository's range walk and
\* the command's arguments.
InitChangelog ==
    /\ flow = "changelog"
    /\ \E ids \in WalkIds :
          \E outcomes \in [1..Len(ids) -> WalkOutcomes] :
             walk = WalkOf(ids, outcomes)
    /\ detail_level \in DetailLevels
    /\ readme_summary \in ReadmeSummaries
    /\ clPc = "start"
    /\ commits = NoResult
    /\ userPrompt = << >>
    /\ releasePrompt = << >>
    /\ IdleConfig
    /\ IdleStatus
    /\ IdleGen /\ IdleLogger /\ IdleMetadata
    /\ IdleLoad /\ IdleReadme /\ IdleToml
    /\ IdleFrame

\* The status scan of the gen command: the entries the backend reports.
InitStatus ==
    /\ flow = "status"
    /\ \E S \in PathSets :
          \E words \in [S -> StatusWords], diffOk \in [S -> BOOLEAN] :
             statuses = StatusListOf(S, words, diffOk)
    /\ stPc = "start"
    /\ fileStatuses = NoResult
    /\ diffReads = {}
    /\ IdleConfig
    /\ IdleChangelog
    /\ IdleGen /\ IdleLogger /\ IdleMetadata
    /\ IdleLoad /\ IdleReadme /\ IdleToml
    /\ IdleFrame

ConfigAlive == cfgOutcome \in {"loaded", "returned"} /\ systemPrompt = << >>

\* A call of Config::update.
ConfigUpdate ==
    /\ flow = "config"
    /\ ConfigAlive
    /\ updateCalls < MaxUpdates
    /\ updateCalls' = updateCalls + 1
    /\ \E provider \in ProviderArgs, api_key \in ApiKeyArgs,
          model \in ModelArgs, additional_params \in ParamArgs,
          use_gitmoji \in GitmojiArgs,
          custom_instructions \in InstructionArgs,
          token_limit \in TokenLimitArgs :
          LET r == update(config, provider, api_key, model,
                          additional_params, use_gitmoji,
                          custom_instructions, token_limit)
          IN /\ config' = r.config
             /\ cfgOutcome' = r.outcome
    /\ UNCHANGED <<flow, systemPrompt, systemTask, clVars, stVars, auxVars>>

CreateChangelogSystemPrompt ==
    /\ flow = "config"
    /\ ConfigAlive
    /\ systemPrompt' = create_changelog_system_prompt(config)
    /\ systemTask' = "changelog"
    /\ UNCHANGED <<flow, config, cfgOutcome, updateCalls, clVars, stVars, auxVars>>

CreateReleaseNotesSystemPrompt ==
    /\ flow = "config"
    /\ ConfigAlive
    /\ systemPrompt' = create_release_notes_system_prompt(config)
    /\ systemTask' = "release_notes"
    /\ UNCHANGED <<flow, config, cfgOutcome, updateCalls, clVars, stVars, auxVars>>

GetCommitsBetween ==
    /\ flow = "changelog"
    /\ clPc = "start"
    /\ \E setupOk \in BOOLEAN :
          /\ commits' = get_commits_between(setupOk, walk)
          /\ clPc' = IF setupOk THEN "walked" ELSE "failed"
    /\ UNCHANGED <<flow, walk, detail_level, readme_summary, userPrompt,
                   releasePrompt, cfgVars, stVars, auxVars>>

\* The changelog flow hands the list of get_commits_between to the prompt
\* assembler as it is.
CreateChangelogUserPrompt ==
    /\ flow = "changelog"
    /\ clPc = "walked"
    /\ userPrompt' = create_changelog_user_prompt(commits.val, detail_level,
                                                  FromRev, ToRev,
                                                  readme_summary)
    /\ clPc' = "prompted"
    /\ UNCHANGED <<flow, walk, detail_level, readme_summary, commits,
                   releasePrompt, cfgVars, stVars, auxVars>>

CreateReleaseNotesUserPrompt ==
    /\ flow = "changelog"
    /\ clPc = "prompted"
    /\ releasePrompt' = create_release_notes_user_prompt(GeneratedChangelog,
                            detail_level, FromRev, ToRev, readme_summary)
    /\ clPc' = "release_prompted"
    /\ UNCHANGED <<flow, walk, detail_level, readme_summary, commits,
                   userPrompt, cfgVars, stVars, auxVars>>

GetFileStatuses ==
    /\ flow = "status"
    /\ stPc = "start"
    /\ \E statusesOk \in BOOLEAN :
          LET r == get_file_statuses(statusesOk, statuses)
          IN /\ fileStatuses' = r.result
             /\ diffReads' = r.reads
    /\ stPc' = "done"
    /\ UNCHANGED <<flow, statuses, cfgVars, clVars, auxVars>>

NextConfig ==
    \/ ConfigUpdate
    \/ CreateChangelogSystemPrompt
    \/ CreateReleaseNotesSystemPrompt

NextChangelog ==
    \/ GetCommitsBetween
    \/ CreateChangelogUserPrompt
    \/ CreateReleaseNotesUserPrompt

NextStatus == GetFileStatuses

SpecConfig == InitConfig /\ [][NextConfig]_vars

SpecChangelog == InitChangelog /\ [][NextChangelog]_vars

SpecStatus == InitStatus /\ [][NextStatus]_vars

---------------------------------------------------------------------------
(* The gen command (main.rs) *)

\* Exit status of the process: main returned Ok(()) or Err(_).
ExitOk == 0
ExitErr == 1
Running == -1

\* The texts the provider can return, one element per run of characters
\* that str::replace treats alike.
MessagePlain == <<"feat: add parser">>
MessageQuoted == <<"fix ", "\"", "panic", "\"", " on empty input">>

\* generated_message.replace("\"", "\\\""), line 47.
RECURSIVE replace_quotes(_)
replace_quotes(msg) ==
    IF msg = << >> THEN << >>
    ELSE (IF Head(msg) = "\"" THEN <<"\\", "\"">> ELSE <<Head(msg)>>)
         \o replace_quotes(Tail(msg))

\* What the gen command is started with and what it will meet.
GenEnvs ==
    [load_ok : BOOLEAN,
     git_installed : BOOLEAN,
     inside_work_tree : BOOLEAN,
     api_key : {"", "sk-key"},
     use_gitmoji : BOOLEAN,
     gitmoji : {None, Some(TRUE)},
     git_info_ok : BOOLEAN,
     staged_files : {<< >>, <<"src/main.rs">>},
     prompt_ok : BOOLEAN,
     provider : {Err("provider"), Ok(MessagePlain), Ok(MessageQuoted)},
     auto_commit : BOOLEAN,
     commit_ok : BOOLEAN]

\* git::check_environment (git.rs 241-251) and git::is_inside_work_tree.
git_check_environment(env) ==
    IF ~env.git_installed
    THEN Err("Git is not installed or not in the PATH")
    ELSE Ok(<< >>)

is_inside_work_tree(env) == Ok(env.inside_work_tree)

\* Config::check_environment, config.rs 69-80.
check_environment(env) ==
    IF git_check_environment(env).tag = "Err" THEN git_check_environment(env)
    ELSE IF ~is_inside_work_tree(env).val
    THEN Err("Not in a Git repository. Please run this command from within a Git repository.")
    ELSE Ok(<< >>)

\* The cli::print_* calls and println!.
Printed(kind, text) == [kind |-> kind, text |-> text]

EnvironmentHelp ==
    <<Printed("info", <<"\nPlease ensure the following:">>),
      Printed("info", <<"1. Git is installed and accessible from the command line.">>),
      Printed("info", <<"2. You are running this command from within a Git repository.">>),
      Printed("info", <<"3. You have set up your configuration using 'git-iris config'.">>)>>

NoStagedChangesText ==
    "No staged changes. Please stage your changes before generating a commit message."

\* Line 27, with the staged list never found empty.
staged_files_never_empty(env) == FALSE

\* Line 27: git_info.staged_files.is_empty().
staged_files_is_empty(env) == env.staged_files = << >>

\* Line 40, with the commit made whatever the flag.
commit_always(env) == TRUE

\* Line 40: args.auto_commit.
commit_requested(env) == env.auto_commit

\* The gen command is started.
InitGen ==
    /\ flow = "gen"
    /\ genEnv \in GenEnvs
    /\ genPc = "start"
    /\ genExit = Running
    /\ providerCalls = << >>
    /\ generated_message = None
    /\ repoCommits = << >>
    /\ genOut = << >>
    /\ IdleConfig /\ IdleChangelog /\ IdleStatus
    /\ IdleLogger /\ IdleMetadata /\ IdleLoad /\ IdleReadme /\ IdleToml
    /\ IdleFrame

notGen == <<cfgVars, clVars, stVars, logVars, mdVars, loadVars, rdVars,
            tomlVars, frameVars>>

\* Line 7: Config::load()?.
GenLoadConfig ==
    /\ flow = "gen" /\ genPc = "start"
    /\ IF genEnv.load_ok
       THEN genPc' = "loaded" /\ genExit' = genExit
       ELSE genPc' = "exit" /\ genExit' = ExitErr
    /\ UNCHANGED <<flow, genEnv, providerCalls, generated_message,
                   repoCommits, genOut, notGen>>

\* Lines 11-18.
GenCheckEnvironment ==
    /\ flow = "gen" /\ genPc = "loaded"
    /\ LET r == check_environment(genEnv) IN
       IF r.tag = "Err"
       THEN /\ genOut' = genOut
                  \o <<Printed("error", <<"Error: ", r.val[1]>>)>>
                  \o EnvironmentHelp
            /\ genPc' = "exit"
            /\ genExit' = ExitOk
       ELSE /\ genOut' = genOut
            /\ genPc' = "env_ok"
            /\ genExit' = genExit
    /\ UNCHANGED <<flow, genEnv, providerCalls, generated_message,
                   repoCommits, notGen>>

\* Lines 20-23.
GenCheckApiKey ==
    /\ flow = "gen" /\ genPc = "env_ok"
    /\ IF genEnv.api_key = ""
       THEN /\ genOut' = Append(genOut, Printed("error",
                <<"API key is not set. Please run 'git-iris config --api-key YOUR_API_KEY' to set it.">>))
            /\ genPc' = "exit"
            /\ genExit' = ExitOk
       ELSE /\ genOut' = genOut
            /\ genPc' = "key_ok"
            /\ genExit' = genExit
    /\ UNCHANGED <<flow, genEnv, providerCalls, generated_message,
                   repoCommits, notGen>>

\* Line 25: git::get_git_info()?.
GenGetGitInfo ==
    /\ flow = "gen" /\ genPc = "key_ok"
    /\ IF genEnv.git_info_ok
       THEN genPc' = "have_info" /\ genExit' = genExit
       ELSE genPc' = "exit" /\ genExit' = ExitErr
    /\ UNCHANGED <<flow, genEnv, providerCalls, generated_message,
                   repoCommits, genOut, notGen>>

\* Lines 27-31.
GenCheckStaged ==
    /\ flow = "gen" /\ genPc = "have_info"
    /\ IF staged_files_is_empty(genEnv)
       THEN /\ genOut' = genOut
                  \o <<Printed("warning", <<NoStagedChangesText>>),
                       Printed("info", <<"You can stage changes using 'git add <file>' or 'git add .'">>)>>
            /\ genPc' = "exit"
            /\ genExit' = ExitOk
       ELSE /\ genOut' = genOut
            /\ genPc' = "staged_ok"
            /\ genExit' = genExit
    /\ UNCHANGED <<flow, genEnv, providerCalls, generated_message,
                   repoCommits, notGen>>

\* Line 33: Option::unwrap_or.
unwrap_or(o, default) == IF IsSome(o) THEN Unwrap(o) ELSE default

\* Lines 33-34: prompt::create_prompt(..)?.
GenCreatePrompt ==
    /\ flow = "gen" /\ genPc = "staged_ok"
    /\ IF genEnv.prompt_ok
       THEN genPc' = "prompted" /\ genExit' = genExit
       ELSE genPc' = "exit" /\ genExit' = ExitErr
    /\ UNCHANGED <<flow, genEnv, providerCalls, generated_message,
                   repoCommits, genOut, notGen>>

\* Line 35: llm::get_refined_message(..).await?.
GenGetRefinedMessage ==
    /\ flow = "gen" /\ genPc = "prompted"
    /\ providerCalls' = Append(providerCalls,
                               [use_gitmoji |-> unwrap_or(genEnv.gitmoji,
                                                          genEnv.use_gitmoji)])
    /\ IF genEnv.provider.tag = "Ok"
       THEN /\ generated_message' = Some(genEnv.provider.val)
            /\ genPc' = "generated"
            /\ genExit' = genExit
       ELSE /\ generated_message' = generated_message
            /\ genPc' = "exit"
            /\ genExit' = ExitErr
    /\ UNCHANGED <<flow, genEnv, repoCommits, genOut, notGen>>

\* Lines 37-49 and the Ok(()) of line 76.
GenReport ==
    /\ flow = "gen" /\ genPc = "generated"
    /\ LET msg == Unwrap(generated_message)
           shown == genOut
                    \o <<Printed("success", <<"Generated commit message:">>),
                         Printed("stdout", msg)>>
       IN
       IF commit_requested(genEnv)
       THEN IF genEnv.commit_ok
            THEN /\ repoCommits' = Append(repoCommits, msg)
                 /\ genOut' = Append(shown, Printed("success",
                                  <<"Changes committed successfully.">>))
                 /\ genExit' = ExitOk
            ELSE /\ repoCommits' = repoCommits
                 /\ genOut' = shown
                 /\ genExit' = ExitErr
       ELSE /\ repoCommits' = repoCommits
            /\ genOut' = shown
                  \o <<Printed("info", <<"\nTo commit with this message, run:">>),
                       Printed("stdout", <<"git commit -m \"">>
                                         \o replace_quotes(msg) \o <<"\"">>)>>
            /\ genExit' = ExitOk
    /\ genPc' = "exit"
    /\ UNCHANGED <<flow, genEnv, providerCalls, generated_message, notGen>>

NextGen ==
    \/ GenLoadConfig
    \/ GenCheckEnvironment
    \/ GenCheckApiKey
    \/ GenGetGitInfo
    \/ GenCheckStaged
    \/ GenCreatePrompt
    \/ GenGetRefinedMessage
    \/ GenReport

SpecGen == InitGen /\ [][NextGen]_vars

---------------------------------------------------------------------------
(* The debug log (logger.rs) *)

MaxLogCalls == 3

\* The threads of the process that log.
Threads == {"t1", "t2"}

\* The level and text a thread passes: one logs through log_debug!, the
\* other through log_error!.
LogCallArgs(t) ==
    IF t = "t1" THEN [level |-> "DEBUG", message |-> "Configuration loaded"]
    ELSE [level |-> "ERROR", message |-> "request failed"]

\* Line 21: format!("{} {}: {}\n", timestamp, level, message), as the runs of
\* bytes a write can stop between: the timestamp printed from the clock
\* reading, the level with the separators around it, the text, the newline.
log_message(timestamp, level, message) ==
    <<Dec(timestamp), <<" ", level, ": ">>, <<message>>, <<"\n">>>>

\* Mutex::lock finds the mutex free, whoever holds it.
mutex_free_always(mutex) == TRUE

\* Mutex::lock finds the mutex free.
mutex_free(mutex) == mutex = None

\* The bytes one write(2) on the O_APPEND handle puts at the end of the file,
\* each with the call it belongs to and its place in that call's record.
appended(file, t, call, record, from, n) ==
    file \o [k \in 1..n |->
               [byte |-> record[from + k], by |-> <<t, call>>,
                pos |-> from + k]]

\* The threads are started; LOG_FILE is not yet forced.
InitLogger ==
    /\ flow = "logger"
    /\ logFileState = "unopened"
    /\ logMutex = None
    /\ logFile = << >>
    /\ logPc = [t \in Threads |-> "idle"]
    /\ logRecord = [t \in Threads |-> << >>]
    /\ logWritten = [t \in Threads |-> 0]
    /\ logCalls = [t \in Threads |-> 0]
    /\ logClock = 0
    /\ IdleConfig /\ IdleChangelog /\ IdleStatus
    /\ IdleGen /\ IdleMetadata /\ IdleLoad /\ IdleReadme /\ IdleToml
    /\ IdleFrame

notLogger == <<cfgVars, clVars, stVars, genVars, mdVars, loadVars, rdVars,
               tomlVars, frameVars>>

\* Lines 19-21: a thread enters log, reads the clock (a later reading is a
\* later time) and formats log_message. MaxLogCalls calls are made in all.
LogCall(t) ==
    /\ flow = "logger" /\ logPc[t] = "idle"
    /\ logClock < MaxLogCalls
    /\ logCalls' = [logCalls EXCEPT ![t] = @ + 1]
    /\ logClock' = logClock + 1
    /\ logRecord' = [logRecord EXCEPT
                        ![t] = log_message(logClock + 1, LogCallArgs(t).level,
                                           LogCallArgs(t).message)]
    /\ logWritten' = [logWritten EXCEPT ![t] = 0]
    /\ logPc' = [logPc EXCEPT ![t] = "formatted"]
    /\ UNCHANGED <<flow, logFileState, logMutex, logFile, notLogger>>

\* Lines 8-16: the first access of LOG_FILE runs the Lazy initializer once;
\* a failed open makes expect panic.
LogOpen(t) ==
    /\ flow = "logger" /\ logPc[t] = "formatted"
    /\ logFileState = "unopened"
    /\ \E opened \in BOOLEAN :
          IF opened
          THEN logFileState' = "open" /\ logPc' = logPc
          ELSE /\ logFileState' = "failed"
               /\ logPc' = [logPc EXCEPT ![t] = "panicked"]
    /\ UNCHANGED <<flow, logMutex, logFile, logRecord, logWritten, logCalls,
                   logClock, notLogger>>

\* An access of LOG_FILE after its initializer panicked panics as well.
LogPoisoned(t) ==
    /\ flow = "logger" /\ logPc[t] = "formatted"
    /\ logFileState = "failed"
    /\ logPc' = [logPc EXCEPT ![t] = "panicked"]
    /\ UNCHANGED <<flow, logFileState, logMutex, logFile, logRecord,
                   logWritten, logCalls, logClock, notLogger>>

\* Line 24: LOG_FILE.lock() returns the guard once the mutex is free. No
\* thread panics while it holds the guard, so lock() never returns Err.
LogLock(t) ==
    /\ flow = "logger" /\ logPc[t] = "formatted"
    /\ logFileState = "open"
    /\ mutex_free(logMutex)
    /\ logMutex' = Some(t)
    /\ logPc' = [logPc EXCEPT ![t] = "locked"]
    /\ UNCHANGED <<flow, logFileState, logFile, logRecord, logWritten,
                   logCalls, logClock, notLogger>>

\* Line 25: one write of the write_all loop; it takes some of the bytes
\* still to be written.
LogWrite(t) ==
    /\ flow = "logger" /\ logPc[t] = "locked"
    /\ logWritten[t] < Len(logRecord[t])
    /\ \E n \in 1..(Len(logRecord[t]) - logWritten[t]) :
          /\ logFile' = appended(logFile, t, logCalls[t], logRecord[t],
                                 logWritten[t], n)
          /\ logWritten' = [logWritten EXCEPT ![t] = @ + n]
    /\ UNCHANGED <<flow, logFileState, logMutex, logPc, logRecord, logCalls,
                   logClock, notLogger>>

\* Line 25: write_all returns, Ok when every byte is written, Err when a
\* write failed; `let _ =` drops either.
LogWriteReturns(t) ==
    /\ flow = "logger" /\ logPc[t] = "locked"
    /\ logPc' = [logPc EXCEPT ![t] = "written"]
    /\ UNCHANGED <<flow, logFileState, logMutex, logFile, logRecord,
                   logWritten, logCalls, logClock, notLogger>>

\* Line 26: the guard goes out of scope and log returns.
LogUnlock(t) ==
    /\ flow = "logger" /\ logPc[t] = "written"
    /\ logMutex' = None
    /\ logPc' = [logPc EXCEPT ![t] = "idle"]
    /\ UNCHANGED <<flow, logFileState, logFile, logRecord, logWritten,
                   logCalls, logClock, notLogger>>

\* The steps of a call that has begun.
LogStep(t) ==
    \/ LogOpen(t)
    \/ LogPoisoned(t)
    \/ LogLock(t)
    \/ LogWrite(t)
    \/ LogWriteReturns(t)
    \/ LogUnlock(t)

NextLogger == \E t \in Threads : LogCall(t) \/ LogStep(t)

\* The scheduler runs every thread that can run; a caller need not call.
SpecLogger ==
    InitLogger /\ [][NextLogger]_vars /\ \A t \in Threads : WF_vars(LogStep(t))

---------------------------------------------------------------------------
(* Project metadata (git.rs 201-239) *)

MaxTree == 2

PathPackageJson == \* package.json
    <<"p", "a", "c", "k", "a", "g", "e", ".", "j", "s", "o", "n">>
PathNodePackageJson == \* node_modules/react/package.json
    <<"n", "o", "d", "e", "_", "m", "o", "d", "u", "l", "e", "s", "/", "r",
      "e", "a", "c", "t", "/", "p", "a", "c", "k", "a", "g", "e", ".", "j",
      "s", "o", "n">>
PathTargetCargoToml == \* target/package/Cargo.toml
    <<"t", "a", "r", "g", "e", "t", "/", "p", "a", "c", "k", "a", "g", "e",
      "/", "C", "a", "r", "g", "o", ".", "t", "o", "m", "l">>
PathGitConfig == \* .git/config
    <<".", "g", "i", "t", "/", "c", "o", "n", "f", "i", "g">>
PackageJsonName == \* package.json
    <<"p", "a", "c", "k", "a", "g", "e", ".", "j", "s", "o", "n">>

\* The files of the working tree WalkDir can yield.
TreePaths ==
    {PathCargoToml, PathPackageJson, PathMainRs, PathGitConfig,
     PathNodePackageJson, PathTargetCargoToml}

OptionalFields ==
    {"language", "framework", "version", "build_system", "test_framework"}

\* ProjectMetadata::default()
ProjectMetadataDefault ==
    [language |-> None, framework |-> None, version |-> None,
     build_system |-> None, test_framework |-> None, dependencies |-> << >>]

\* The order of String on the dependency names used here.
DependencyNames == <<"anyhow", "regex", "serde">>

str_rank(s) == CHOOSE k \in 1..Len(DependencyNames) : DependencyNames[k] = s

str_le(a, b) == str_rank(a) <= str_rank(b)

\* Vec::sort: a stable sort by the order of String.
RECURSIVE insert_sorted(_, _)
insert_sorted(sorted, x) ==
    IF sorted = << >> THEN <<x>>
    ELSE IF str_le(Head(sorted), x)
         THEN <<Head(sorted)>> \o insert_sorted(Tail(sorted), x)
         ELSE <<x>> \o sorted

RECURSIVE sort(_)
sort(v) ==
    IF v = << >> THEN << >>
    ELSE insert_sorted(sort(SubSeq(v, 1, Len(v) - 1)), v[Len(v)])

\* Vec::dedup: of every run of equal consecutive elements the first stays.
RECURSIVE dedup(_)
dedup(v) ==
    IF Len(v) <= 1 THEN v
    ELSE IF v[1] = v[2] THEN dedup(Tail(v))
         ELSE <<v[1]>> \o dedup(Tail(v))

\* Lines 236-238 without the sort.
merge_dependencies_unsorted(combined, new) == dedup(combined \o new)

\* Lines 236-238: extend, sort, dedup.
merge_dependencies(combined, new) == dedup(sort(combined \o new))

\* Lines 221-235, one field: it is assigned only while it is None.
merge_field(combined, new) == IF combined = None THEN new ELSE combined

merge_metadata(combined, new) ==
    [language |-> merge_field(combined.language, new.language),
     framework |-> merge_field(combined.framework, new.framework),
     version |-> merge_field(combined.version, new.version),
     build_system |-> merge_field(combined.build_system, new.build_system),
     test_framework |->
        merge_field(combined.test_framework, new.test_framework),
     dependencies |->
        merge_dependencies(combined.dependencies, new.dependencies)]

\* What a manifest can state, by its file name.
ManifestProfile(file_name) ==
    IF file_name = CargoTomlName
    THEN [language |-> "Rust", framework |-> "Tokio", version |-> "0.1.0",
          build_system |-> "Cargo", test_framework |-> "cargo test"]
    ELSE [language |-> "JavaScript", framework |-> "React",
          version |-> "1.0.0", build_system |-> "npm",
          test_framework |-> "Jest"]

\* A file's content, as far as an analyzer reads it: the fields it states
\* and the dependencies it lists, in the file's order.
FileContents ==
    [stated : { {}, OptionalFields, {"language", "build_system"},
                {"framework", "version", "test_framework"} },
     listed : { << >>, <<"serde", "anyhow">>, <<"serde", "serde">>,
                <<"regex">> }]

\* Path::file_name: the text after the last separator.
RECURSIVE file_name(_)
file_name(path) ==
    IF \E i \in 1..Len(path) : path[i] = "/"
    THEN file_name(Tail(path))
    ELSE path

\* file_analyzers::get_analyzer(file_name).extract_metadata(file_name,
\* content): a manifest contributes what it states, every other file gets
\* the default analyzer and contributes nothing.
extract_metadata(name, content) ==
    IF name \in {CargoTomlName, PackageJsonName}
    THEN [f \in OptionalFields \cup {"dependencies"} |->
            IF f = "dependencies" THEN content.listed
            ELSE IF f \in content.stated
                 THEN Some(ManifestProfile(name)[f]) ELSE None]
    ELSE ProjectMetadataDefault

\* What WalkDir yields for an entry: an error (dropped by filter_map), a
\* directory, a file that cannot be read as UTF-8 text, a readable file.
EntryKinds == {"error", "dir", "unreadable", "file"}

\* get_project_metadata is called: lines 201-202.
InitMetadata ==
    /\ flow = "metadata"
    /\ mdPc = "walking"
    /\ combined_metadata = ProjectMetadataDefault
    /\ mdLastMerge = None
    /\ mdVisited = {}
    /\ mdRead = {}
    /\ mdMerged = {}
    /\ IdleConfig /\ IdleChangelog /\ IdleStatus
    /\ IdleGen /\ IdleLogger /\ IdleLoad /\ IdleReadme /\ IdleToml
    /\ IdleFrame

notMetadata == <<cfgVars, clVars, stVars, genVars, logVars, loadVars, rdVars,
                 tomlVars, frameVars>>

\* Lines 204-215: one turn of the loop, for the entry the walk yields next.
WalkEntry ==
    /\ flow = "metadata" /\ mdPc = "walking"
    /\ Cardinality(mdVisited) < MaxTree
    /\ \E path \in TreePaths \ mdVisited, kind \in EntryKinds,
          content \in FileContents :
          /\ mdVisited' = mdVisited \cup {path}
          /\ IF kind = "file"
             THEN LET new == extract_metadata(file_name(path), content) IN
                  /\ mdRead' = mdRead \cup {path}
                  /\ mdMerged' = mdMerged \cup {path}
                  /\ mdLastMerge' = Some([combined |-> combined_metadata,
                                          new |-> new, path |-> path])
                  /\ combined_metadata' = merge_metadata(combined_metadata,
                                                         new)
             ELSE UNCHANGED <<mdRead, mdMerged, mdLastMerge,
                              combined_metadata>>
    /\ UNCHANGED <<flow, mdPc, notMetadata>>

\* Line 217: the walk is over, Ok(combined_metadata) is returned.
WalkReturn ==
    /\ flow = "metadata" /\ mdPc = "walking"
    /\ mdPc' = "done"
    /\ UNCHANGED <<flow, combined_metadata, mdLastMerge, mdVisited, mdRead,
                   mdMerged, notMetadata>>

NextMetadata == WalkEntry \/ WalkReturn

SpecMetadata == InitMetadata /\ [][NextMetadata]_vars

---------------------------------------------------------------------------
(* Config::load (config.rs 11-50) *)

\* A [providers.<name>] table of the file: each key is there (Some) or not.
DocumentEntries ==
    [api_key : {None, Some("sk-key")},
     model : {None, Some("custom-model")},
     additional_params : {None, Some([k \in {"temperature"} |-> "0.7"])},
     custom_token_limit : {None, Some(4000)}]

\* The providers key of the file: absent, an empty table, or one table.
DocumentProviders ==
    {None, Some(EmptyMap)}
    \cup { Some([p \in {"openai"} |-> e]) : e \in DocumentEntries }

\* A well-formed TOML document, by the keys it holds; unknown stands for a
\* key no field of Config is named after.
Documents ==
    [default_provider : {None, Some("openai")},
     providers : DocumentProviders,
     use_gitmoji : {None, Some(TRUE), Some(FALSE)},
     custom_instructions : {None, Some("Be brief")},
     unknown : BOOLEAN]

EmptyDocument ==
    [default_provider |-> None, providers |-> None, use_gitmoji |-> None,
     custom_instructions |-> None, unknown |-> FALSE]

\* What Config::load meets: no home directory, no file at the path, a file
\* that cannot be read, text that is not TOML, or a document.
ConfigFiles ==
    { [kind |-> k, doc |-> EmptyDocument] :
        k \in {"no_home", "missing", "unreadable", "malformed"} }
    \cup { [kind |-> "document", doc |-> d] : d \in Documents }

\* Deserialize for ProviderConfig, lines 26-37: api_key and model are
\* required, additional_params has #[serde(default)], an absent Option
\* field is None.
entry_missing_field(e) ==
    IF e.api_key = None THEN Some("missing field api_key")
    ELSE IF e.model = None THEN Some("missing field model")
    ELSE None

deserialize_entry(e) ==
    [api_key |-> Unwrap(e.api_key),
     model |-> Unwrap(e.model),
     additional_params |->
        IF IsSome(e.additional_params) THEN Unwrap(e.additional_params)
        ELSE EmptyMap,
     custom_token_limit |-> e.custom_token_limit]

\* Deserialize for Config, lines 11-23: default_provider and providers are
\* required, use_gitmoji and custom_instructions have #[serde(default)],
\* unknown keys are skipped.
missing_field(doc) ==
    IF doc.default_provider = None THEN Some("missing field default_provider")
    ELSE IF doc.providers = None THEN Some("missing field providers")
    ELSE LET tables == Unwrap(doc.providers)
             bad == { p \in DOMAIN tables :
                        IsSome(entry_missing_field(tables[p])) }
         IN IF bad = {} THEN None
            ELSE entry_missing_field(tables[CHOOSE p \in bad : TRUE])

from_str(doc) ==
    IF IsSome(missing_field(doc))
    THEN Err(Unwrap(missing_field(doc)))
    ELSE Ok([default_provider |-> Unwrap(doc.default_provider),
             providers |->
                [p \in DOMAIN Unwrap(doc.providers) |->
                    deserialize_entry(Unwrap(doc.providers)[p])],
             use_gitmoji |->
                IF IsSome(doc.use_gitmoji) THEN Unwrap(doc.use_gitmoji)
                ELSE FALSE,
             custom_instructions |->
                IF IsSome(doc.custom_instructions)
                THEN Unwrap(doc.custom_instructions) ELSE ""])

\* Config::load, lines 41-50.
load(file) ==
    IF file.kind = "no_home"
    THEN Err("Unable to determine home directory")
    ELSE IF file.kind = "missing" THEN Ok(ConfigDefault)
    ELSE IF file.kind = "unreadable" THEN Err("read_to_string")
    ELSE IF file.kind = "malformed" THEN Err("TOML parse error")
    ELSE from_str(file.doc)

InitLoad ==
    /\ flow = "load"
    /\ configFile \in ConfigFiles
    /\ loadResult = NoResult
    /\ IdleConfig /\ IdleChangelog /\ IdleStatus
    /\ IdleGen /\ IdleLogger /\ IdleMetadata /\ IdleReadme /\ IdleToml
    /\ IdleFrame

ConfigLoad ==
    /\ flow = "load"
    /\ loadResult = NoResult
    /\ loadResult' = load(configFile)
    /\ UNCHANGED <<flow, configFile, cfgVars, clVars, stVars, genVars,
                   logVars, mdVars, rdVars, tomlVars, frameVars>>

NextLoad == ConfigLoad

SpecLoad == InitLoad /\ [][NextLoad]_vars

---------------------------------------------------------------------------
(* find_and_read_readme (git.rs 281-293) *)

\* Line 282, with the candidates in another order.
readme_patterns_reordered == <<"Readme.md", "README", "README.txt", "README.md">>

\* Line 282.
readme_patterns == <<"README.md", "README.txt", "README", "Readme.md">>

\* What repo_path holds under a name: nothing, a file of text, or something
\* that exists and cannot be read as text (a directory, bytes that are not
\* UTF-8).
ReadmeStates == {"absent", "text", "unreadable"}

\* The text of the file of that name.
ReadmeContent(name) ==
    CASE name = "README.md" -> "# git-iris (markdown)"
      [] name = "README.txt" -> "git-iris (plain text)"
      [] name = "README" -> "git-iris (no extension)"
      [] OTHER -> "# Git-Iris (Readme.md)"

\* Path::exists and fs::read_to_string.
exists(files, name) == files[name] # "absent"

read_to_string(files, name) ==
    IF files[name] = "text" THEN Ok(ReadmeContent(name))
    ELSE Err("read_to_string")

\* Lines 284-292: the loop from the i-th pattern on.
RECURSIVE find_readme_from(_, _)
find_readme_from(files, i) ==
    IF i > Len(readme_patterns) THEN Ok(None)
    ELSE IF exists(files, readme_patterns[i])
         THEN LET content == read_to_string(files, readme_patterns[i]) IN
              IF content.tag = "Err" THEN content
              ELSE Ok(Some(content.val))
         ELSE find_readme_from(files, i + 1)

find_and_read_readme(files) == find_readme_from(files, 1)

InitReadme ==
    /\ flow = "readme"
    /\ readmeFiles \in [Range(readme_patterns) -> ReadmeStates]
    /\ readmeResult = NoResult
    /\ IdleConfig /\ IdleChangelog /\ IdleStatus
    /\ IdleGen /\ IdleLogger /\ IdleMetadata /\ IdleLoad /\ IdleToml
    /\ IdleFrame

FindAndReadReadme ==
    /\ flow = "readme"
    /\ readmeResult = NoResult
    /\ readmeResult' = find_and_read_readme(readmeFiles)
    /\ UNCHANGED <<flow, readmeFiles, cfgVars, clVars, stVars, genVars,
                   logVars, mdVars, loadVars, tomlVars, frameVars>>

NextReadme == FindAndReadReadme

SpecReadme == InitReadme /\ [][NextReadme]_vars

---------------------------------------------------------------------------
(* TomlAnalyzer::analyze (file_analyzers/toml.rs) *)

MaxTomlCalls == 2

PathPyprojectToml == \* pyproject.toml
    <<"p", "y", "p", "r", "o", "j", "e", "c", "t", ".", "t", "o", "m", "l">>
PathCargoTomlOrig == \* Cargo.toml.orig
    <<"C", "a", "r", "g", "o", ".", "t", "o", "m", "l", ".", "o", "r", "i",
      "g">>
PathCrateCargoToml == \* crates/a/Cargo.toml
    <<"c", "r", "a", "t", "e", "s", "/", "a", "/", "C", "a", "r", "g", "o",
      ".", "t", "o", "m", "l">>

\* The paths the analyzer is given, each with whether its text ends with
\* Cargo.toml.
TomlFileCases ==
    { [file |-> PathCargoToml, cargo_toml |-> TRUE],
      [file |-> PathCrateCargoToml, cargo_toml |-> TRUE],
      [file |-> PathTargetCargoToml, cargo_toml |-> TRUE],
      [file |-> PathPyprojectToml, cargo_toml |-> FALSE],
      [file |-> PathCargoTomlOrig, cargo_toml |-> FALSE],
      [file |-> PathCargoLock, cargo_toml |-> FALSE],
      [file |-> PathMainRs, cargo_toml |-> FALSE] }

\* The diff texts of the change, each with whether it holds "[dependencies]"
\* or "version =".
TomlDiffCases ==
    { [diff |-> <<"+", "[", "d", "e", "p", "e", "n", "d", "e", "n", "c", "i",
                  "e", "s", "]">>,
       dependency |-> TRUE],
      [diff |-> <<"-", "v", "e", "r", "s", "i", "o", "n", " ", "=", " ", "1">>,
       dependency |-> TRUE],
      [diff |-> <<"[", "d", "e", "p", "e", "n", "d", "e", "n", "c", "i", "e",
                  "s", "]", "\n", "v", "e", "r", "s", "i", "o", "n", " ",
                  "=">>,
       dependency |-> TRUE],
      [diff |-> <<"+", "[", "d", "e", "v", "-", "d", "e", "p", "e", "n", "d",
                  "e", "n", "c", "i", "e", "s", "]">>,
       dependency |-> FALSE],
      [diff |-> <<"+", "v", "e", "r", "s", "i", "o", "n", "=", "1">>,
       dependency |-> FALSE],
      [diff |-> <<"+", "V", "e", "r", "s", "i", "o", "n", " ", "=">>,
       dependency |-> FALSE],
      [diff |-> <<"+", "n", "a", "m", "e", " ", "=", " ", "x">>,
       dependency |-> FALSE],
      [diff |-> << >>, dependency |-> FALSE],
      [diff |-> BinaryFileChanged, dependency |-> FALSE],
      [diff |-> <<"@", "@", "@", "[", "v", "e", "r", "s", "i", "o", "n">>,
       dependency |-> FALSE] }

InitToml ==
    /\ flow = "toml"
    /\ \E f \in TomlFileCases, d \in TomlDiffCases :
          tomlInput = [file |-> f.file, cargo_toml |-> f.cargo_toml,
                       diff |-> d.diff, dependency |-> d.dependency]
    /\ tomlCalls = 0
    /\ tomlResult = << >>
    /\ IdleConfig /\ IdleChangelog /\ IdleStatus
    /\ IdleGen /\ IdleLogger /\ IdleMetadata /\ IdleLoad /\ IdleReadme
    /\ IdleFrame

\* A call of TomlAnalyzer::analyze on the same file and change.
TomlAnalyze ==
    /\ flow = "toml"
    /\ tomlCalls < MaxTomlCalls
    /\ tomlCalls' = tomlCalls + 1
    /\ tomlResult' = toml_analyze(tomlInput.file, tomlInput.diff)
    /\ UNCHANGED <<flow, tomlInput, cfgVars, clVars, stVars, genVars,
                   logVars, mdVars, loadVars, rdVars, frameVars>>

NextToml == TomlAnalyze

SpecToml == InitToml /\ [][NextToml]_vars

---------------------------------------------------------------------------
(* The config command: one call of Config::update (config.rs 83-123) *)

\* A file saved by an earlier run of the config command: the openai entry
\* holds a key, a model, a parameter and a token limit of the user's, and
\* claude is the default provider.
CustomisedConfig ==
    [default_provider |-> "claude",
     providers |->
        Insert(Insert(EmptyMap, "openai",
                      [api_key |-> "sk-stored",
                       model |-> "stored-model",
                       additional_params |-> [k \in {"top_p"} |-> "0.9"],
                       custom_token_limit |-> Some(2000)]),
               "claude", default_for("claude")),
     use_gitmoji |-> TRUE,
     custom_instructions |-> "Keep it short"]

\* What Config::load can hand to the command.
FrameConfigs == LoadableConfigs \cup {CustomisedConfig}

\* The additional_params a caller can pass: none, a new key, a stored key
\* with a new value, or both.
FrameParamArgs ==
    ParamArgs \cup {Some([k \in {"top_p"} |-> "1.0"]),
                    Some([k \in {"temperature", "top_p"} |->
                             IF k = "top_p" THEN "1.0" ELSE "0.7"])}

UpdateArgs(provider, api_key, model, additional_params, use_gitmoji, custom_instructions, token_limit) ==
    [provider |-> provider, api_key |-> api_key, model |-> model,
     additional_params |-> additional_params, use_gitmoji |-> use_gitmoji,
     custom_instructions |-> custom_instructions,
     token_limit |-> token_limit]

\* Config::load has run (main.rs 7); the command has not called update yet.
InitFrame ==
    /\ flow = "frame"
    /\ frameOld \in FrameConfigs
    /\ frameArgs = << >>
    /\ frameNew = [config |-> frameOld, outcome |-> "loaded"]
    /\ IdleConfig
    /\ IdleChangelog
    /\ IdleStatus
    /\ IdleGen /\ IdleLogger /\ IdleMetadata
    /\ IdleLoad /\ IdleReadme /\ IdleToml

\* The one call of Config::update a process makes (main.rs 56).
FrameUpdate ==
    /\ flow = "frame"
    /\ frameArgs = << >>
    /\ \E provider \in ProviderArgs, api_key \in ApiKeyArgs,
          model \in ModelArgs, additional_params \in FrameParamArgs,
          use_gitmoji \in GitmojiArgs,
          custom_instructions \in InstructionArgs,
          token_limit \in TokenLimitArgs :
          /\ frameArgs' = Some(UpdateArgs(provider, api_key, model,
                                          additional_params, use_gitmoji,
                                          custom_instructions, token_limit))
          /\ frameNew' = update(frameOld, provider, api_key, model,
                                additional_params, use_gitmoji,
                                custom_instructions, token_limit)
    /\ UNCHANGED <<flow, frameOld, cfgVars, clVars, stVars, genVars, logVars,
                   mdVars, loadVars, rdVars, tomlVars>>

NextFrame == FrameUpdate

SpecFrame == InitFrame /\ [][NextFrame]_vars

---------------------------------------------------------------------------
(* The program: one of its parts is exercised *)

Init == InitConfig \/ InitChangelog \/ InitStatus \/ InitGen \/ InitLogger
        \/ InitMetadata \/ InitLoad \/ InitReadme \/ InitToml \/ InitFrame

Next == NextConfig \/ NextChangelog \/ NextStatus \/ NextGen \/ NextLogger
        \/ NextMetadata \/ NextLoad \/ NextReadme \/ NextToml \/ NextFrame

Spec == Init /\ [][Next]_vars

---------------------------------------------------------------------------
(* Reading a prompt back *)

DigitValue(d) == CHOOSE v \in 0..9 : Digits[v + 1] = d

\* The number a decimal text stands for.
RECURSIVE ParseDec(_)
ParseDec(t) ==
    IF t = << >> THEN 0
    ELSE 10 * ParseDec(SubSeq(t, 1, Len(t) - 1)) + DigitValue(t[Len(t)])

IndicesOf(prompt, fmt) == { k \in 1..Len(prompt) : prompt[k].fmt = fmt }

Min(S) == CHOOSE x \in S : \A y \in S : x <= y

\* The first blank piece after position k: where the block begun at k ends.
BlockEnd(prompt, k) ==
    Min({ j \in (k + 1)..Len(prompt) : prompt[j].fmt = BlankFmt })

\* The "Overall Changes" block: from its header to the blank piece ending it.
OverallBlockOf(prompt) ==
    LET i == Min(IndicesOf(prompt, OverallFmt))
    IN SubSeq(prompt, i, BlockEnd(prompt, i))

\* The number the block reports on its only piece of the given format.
Reported(block, fmt) ==
    ParseDec(block[Min(IndicesOf(block, fmt))].args[1])

ReportsOnce(block, fmt) == Cardinality(IndicesOf(block, fmt)) = 1

\* The per-commit blocks, in the prompt's order.
CommitStarts(prompt) == SortedIdx(IndicesOf(prompt, CommitFmt))

CommitBlocksOf(prompt) ==
    [k \in 1..Len(CommitStarts(prompt)) |->
        SubSeq(prompt, CommitStarts(prompt)[k],
               BlockEnd(prompt, CommitStarts(prompt)[k]))]

PiecesOf(block, fmts) == SelectSeq(block, LAMBDA piece : piece.fmt \in fmts)

FileListFmts ==
    {FileSummaryFmt, DetailedFilesFmt, FileLineFmt, AnalysisLineFmt}

\* The walk's entries that were analysed, in the walk's order.
AnalyzedEntries(w) == SelectSeq(w, LAMBDA e : e.outcome = "ok")

Prompted == flow = "changelog" /\ clPc \in {"prompted", "release_prompted"}

---------------------------------------------------------------------------
(* Claims *)

AfterUpdate == flow = "config" /\ updateCalls > 0

\* C1: after any call of Config::update, on any Config including one loaded
\* from a file, the providers map has an entry for default_provider, and the
\* call never aborts because the default provider's entry is missing.
C1_UpdateKeepsDefaultEntry ==
    AfterUpdate =>
        /\ cfgOutcome # "panic_unwrap_none"
        /\ (cfgOutcome = "returned" =>
                config.default_provider \in DOMAIN config.providers)

PlusMetrics(a, b) ==
    [files_changed |-> a.files_changed + b.files_changed,
     insertions |-> a.insertions + b.insertions,
     deletions |-> a.deletions + b.deletions,
     total_lines_changed |-> a.total_lines_changed + b.total_lines_changed]

\* The elements of q at the positions of S, in q's order.
Pick(q, S) == [k \in 1..Cardinality(S) |-> q[SortedIdx(S)[k]]]

Walked == flow = "changelog" /\ commits.tag = "Ok"

\* C2: metrics additivity: however the analysed changes are split into two
\* parts, the totals of the whole are the componentwise sum of the totals of
\* the parts, and no change at all totals to zero in every field.
C2_MetricsAdditive ==
    Walked =>
        LET C == commits.val
            all == 1..Len(C)
        IN /\ \A S \in SUBSET all :
                calculate_total_metrics(C) =
                    PlusMetrics(calculate_total_metrics(Pick(C, S)),
                                calculate_total_metrics(Pick(C, all \ S)))
           /\ (C = << >> => calculate_total_metrics(C) = ZeroMetrics)

\* Three changes, none of them without lines, are split.
C2_Witness ==
    /\ Walked
    /\ Len(commits.val) = 3
    /\ \A k \in 1..3 : commits.val[k].metrics.total_lines_changed > 0

\* C3: the "Overall Changes" block reports the number of changes as Total
\* commits, and as Files changed, Total lines changed, Insertions and
\* Deletions the fields of calculate_total_metrics of that list of changes.
C3_OverallBlockReportsTotals ==
    Prompted =>
        LET block == OverallBlockOf(userPrompt)
            total == calculate_total_metrics(commits.val)
        IN /\ Cardinality(IndicesOf(userPrompt, OverallFmt)) = 1
           /\ \A fmt \in {TotalCommitsFmt, FilesChangedFmt, TotalLinesFmt,
                          InsertionsFmt, DeletionsFmt} :
                  ReportsOnce(block, fmt)
           /\ Reported(block, TotalCommitsFmt) = Len(commits.val)
           /\ Reported(block, FilesChangedFmt) = total.files_changed
           /\ Reported(block, TotalLinesFmt) = total.total_lines_changed
           /\ Reported(block, InsertionsFmt) = total.insertions
           /\ Reported(block, DeletionsFmt) = total.deletions

\* A prompt over several changes whose insertions and deletions differ and
\* whose line total takes two digits.
C3_Witness ==
    /\ Prompted
    /\ Len(commits.val) >= 2
    /\ calculate_total_metrics(commits.val).total_lines_changed >= 10
    /\ calculate_total_metrics(commits.val).deletions > 0

\* The changelog scenario: the range holds the two commits on src/x.
ScenarioTwoCommits ==
    /\ Prompted
    /\ Len(commits.val) = 2
    /\ { commits.val[k].commit_hash : k \in 1..2 } = {"c1", "c2"}

DistinctFiles(changes) ==
    UNION { { changes[k].file_changes[i].new_path :
                i \in 1..Len(changes[k].file_changes) } :
            k \in 1..Len(changes) }

RECURSIVE FileEntries(_)
FileEntries(changes) ==
    IF changes = << >> THEN 0
    ELSE Len(changes[1].file_changes) + FileEntries(Tail(changes))

\* C4 as claimed: "Files changed" of the block is the number of distinct
\* files of the range, so the scenario reports Total commits 2, Files
\* changed 1, Insertions 12, Deletions 1, Total lines changed 13.
C4_FilesChangedDistinct ==
    Prompted =>
        LET block == OverallBlockOf(userPrompt)
        IN /\ Reported(block, FilesChangedFmt) =
                  Cardinality(DistinctFiles(commits.val))
           /\ (ScenarioTwoCommits =>
                  /\ Reported(block, TotalCommitsFmt) = 2
                  /\ Reported(block, FilesChangedFmt) = 1
                  /\ Reported(block, InsertionsFmt) = 12
                  /\ Reported(block, DeletionsFmt) = 1
                  /\ Reported(block, TotalLinesFmt) = 13)

\* C4 amended: "Files changed" of the block is the sum of the commits' file
\* counts, a file counted once per commit that touches it, so the scenario
\* reports Total commits 2, Files changed 2, Insertions 12, Deletions 1,
\* Total lines changed 13.
C4_FilesChangedPerCommit ==
    Prompted =>
        LET block == OverallBlockOf(userPrompt)
        IN /\ Reported(block, FilesChangedFmt) = FileEntries(commits.val)
           /\ (ScenarioTwoCommits =>
                  /\ Reported(block, TotalCommitsFmt) = 2
                  /\ Reported(block, FilesChangedFmt) = 2
                  /\ Reported(block, InsertionsFmt) = 12
                  /\ Reported(block, DeletionsFmt) = 1
                  /\ Reported(block, TotalLinesFmt) = 13)

\* The scenario's prompt, at the detail level of the scenario.
C4_Witness == ScenarioTwoCommits /\ detail_level = "Standard"

Scanned == flow = "status" /\ stPc = "done"

StagedOf(result) == result.val.staged

\* C5: exclusion preservation: a staged file whose path matches the
\* exclusion set has the diff "[Content excluded]", the analysis
\* ["[Analysis excluded]"] and content_excluded set, whatever the backend
\* holds as its diff, and its diff is never read; and every staged file with
\* content_excluded set has both sentinels.
C5_ExclusionPreserved ==
    Scanned =>
        /\ \A p \in diffReads : ~should_exclude_file(p)
        /\ (fileStatuses.tag = "Ok" =>
              \A k \in 1..Len(StagedOf(fileStatuses)) :
                 LET f == StagedOf(fileStatuses)[k]
                     sentinels ==
                        /\ f.diff = ContentExcluded
                        /\ f.analysis = <<"[Analysis excluded]">>
                 IN /\ (should_exclude_file(f.path) =>
                          sentinels /\ f.content_excluded)
                    /\ (f.content_excluded => sentinels))

\* Two staged files, one excluded (the lock file, whose diff would draw an
\* observation) and one not.
C5_Witness ==
    /\ Scanned
    /\ fileStatuses.tag = "Ok"
    /\ \E k, j \in 1..Len(StagedOf(fileStatuses)) :
          /\ StagedOf(fileStatuses)[k].path = PathCargoLock
          /\ StagedOf(fileStatuses)[k].content_excluded
          /\ ~StagedOf(fileStatuses)[j].content_excluded

\* The pieces of one commit block that belong to file i of n: from its
\* "path (change_type)" piece up to the next file's.
FilePiecesOf(block, i) ==
    LET starts == SortedIdx(IndicesOf(block, FileLineFmt))
        last == IF i < Len(starts) THEN starts[i + 1] - 1 ELSE Len(block)
    IN SubSeq(block, starts[i], last)

\* C6: detail-level gating. Minimal: no file list at all, neither a list
\* header nor a file nor an observation. Standard: every commit block has
\* the "File changes summary:" header and lists each of its files as
\* "path (change_type)", with no observation anywhere. Detailed: every
\* commit block lists each of its files as "path (change_type)", each
\* followed by all of that file's observations.
C6_DetailGating ==
    Prompted =>
        LET blocks == CommitBlocksOf(userPrompt)
            lists(k) == PiecesOf(blocks[k], FileListFmts)
            files(k) == commits.val[k].file_changes
            listed(k) ==
                /\ Cardinality(IndicesOf(blocks[k], FileLineFmt))
                      = Len(files(k))
                /\ \A i \in 1..Len(files(k)) :
                      FilePiecesOf(lists(k), i)[1].args =
                          <<Txt(files(k)[i].new_path),
                            Txt(files(k)[i].change_type)>>
        IN /\ Len(blocks) = Len(commits.val)
           /\ (detail_level = "Minimal" =>
                 \A fmt \in FileListFmts : IndicesOf(userPrompt, fmt) = {})
           /\ (detail_level = "Standard" =>
                 /\ IndicesOf(userPrompt, AnalysisLineFmt) = {}
                 /\ IndicesOf(userPrompt, DetailedFilesFmt) = {}
                 /\ \A k \in 1..Len(blocks) :
                       /\ lists(k)[1] = P0(FileSummaryFmt)
                       /\ Len(lists(k)) = 1 + Len(files(k))
                       /\ listed(k))
           /\ (detail_level = "Detailed" =>
                 /\ IndicesOf(userPrompt, FileSummaryFmt) = {}
                 /\ \A k \in 1..Len(blocks) :
                       /\ lists(k)[1] = P0(DetailedFilesFmt)
                       /\ listed(k)
                       /\ \A i \in 1..Len(files(k)) :
                             Tail(FilePiecesOf(lists(k), i)) =
                                 [j \in 1..Len(files(k)[i].analysis) |->
                                     P1(AnalysisLineFmt,
                                        Txt(files(k)[i].analysis[j]))])

\* A detailed prompt whose range holds the commit with two files, one of
\* them with two observations.
C6_Witness ==
    /\ Prompted
    /\ detail_level = "Detailed"
    /\ \E k \in 1..Len(commits.val) : commits.val[k].commit_hash = "c3"

ExpectedTone ==
    CASE detail_level = "Minimal" -> "concise"
      [] detail_level = "Standard" -> "comprehensive"
      [] detail_level = "Detailed" -> "highly detailed"

ClosingFmts ==
    {ChangelogClosingFmt, ClosingGroupFmt, ClosingDescribeFmt,
     ClosingMetricsFmt, ChangelogReadmeFmt}

\* The order of the sections after the position where the "Overall Changes"
\* block starts: the commit blocks, then the README summary exactly when one
\* was given, then the closing directive with the tone of the detail level;
\* and the release-notes prompt closes with the same tone.
SectionsInOrder(overallAt) ==
    LET closing == IndicesOf(userPrompt, ChangelogClosingFmt)
        readme == IndicesOf(userPrompt, ReadmeHeaderFmt)
        starts == IndicesOf(userPrompt, CommitFmt)
        overallEnd == BlockEnd(userPrompt, overallAt)
    IN /\ IndicesOf(userPrompt, OverallFmt) = {overallAt}
       /\ Cardinality(starts) = Len(commits.val)
       /\ \A c \in starts : c > overallEnd
       /\ Cardinality(closing) = 1
       /\ \A c \in starts : BlockEnd(userPrompt, c) < Min(closing)
       /\ (IsSome(readme_summary) <=> readme # {})
       /\ (readme # {} =>
             /\ Cardinality(readme) = 1
             /\ Min(readme) > overallEnd
             /\ \A c \in starts : BlockEnd(userPrompt, c) < Min(readme)
             /\ userPrompt[Min(readme) + 1].args
                   = <<Txt(Unwrap(readme_summary))>>
             /\ Min(readme) + 1 < Min(closing))
       /\ \A k \in 1..Len(userPrompt) :
             userPrompt[k].fmt \in ClosingFmts <=> k >= Min(closing)
       /\ userPrompt[Min(closing)].args[1] = Txt(ExpectedTone)
       /\ (clPc = "release_prompted" =>
             /\ Cardinality(IndicesOf(releasePrompt, ReleaseClosingFmt)) = 1
             /\ releasePrompt[Min(IndicesOf(releasePrompt,
                                            ReleaseClosingFmt))].args[1]
                   = Txt(ExpectedTone))

\* C7 as claimed: the changelog user prompt begins with the "Overall
\* Changes" block, followed by the commit blocks, the README summary exactly
\* when one is given and the closing directive, whose tone word is concise,
\* comprehensive or highly detailed by detail level, as in the release-notes
\* prompt.
C7_BeginsWithOverall == Prompted => SectionsInOrder(1)

\* C7 amended: the changelog user prompt begins with the introduction
\* sentence naming from and to; the "Overall Changes" block comes right
\* after it, followed by the commit blocks, the README summary exactly when
\* one is given and the closing directive, with the same tone words.
C7_IntroductionThenOverall ==
    Prompted =>
        /\ userPrompt[1] = P2(ChangelogIntroFmt, Txt(FromRev), Txt(ToRev))
        /\ SectionsInOrder(2)

\* Both prompts built, with commits and a README summary.
C7_Witness ==
    /\ flow = "changelog"
    /\ clPc = "release_prompted"
    /\ Len(commits.val) >= 2
    /\ IsSome(readme_summary)

SystemPrompted == flow = "config" /\ systemPrompt # << >>

GitmojiAt == { k \in 1..Len(systemPrompt) :
                  systemPrompt[k] = P1("{}", get_gitmoji_list) }

InstructionsAt == IndicesOf(systemPrompt, AdditionalInstructionsFmt)

\* C8: either system prompt starts with the fixed instruction text of its
\* task, holds the gitmoji table exactly when use_gitmoji is set, holds the
\* "Additional instructions" section with the user's instructions exactly
\* when they are not empty, and has the table before the instructions when
\* it holds both.
C8_SystemPromptOptions ==
    SystemPrompted =>
        /\ systemPrompt[1] =
              P0(IF systemTask = "changelog" THEN ChangelogSystemText
                 ELSE ReleaseNotesSystemText)
        /\ (GitmojiAt # {} <=> config.use_gitmoji)
        /\ (InstructionsAt # {} <=> config.custom_instructions # "")
        /\ \A k \in InstructionsAt :
              systemPrompt[k].args = <<Txt(config.custom_instructions)>>
        /\ \A g \in GitmojiAt, k \in InstructionsAt : g < k

\* A release-notes system prompt with the table and with instructions.
C8_Witness ==
    /\ SystemPrompted
    /\ systemTask = "release_notes"
    /\ config.use_gitmoji
    /\ config.custom_instructions # ""

BlockHash(block) == block[1].args[1][1]

\* C9: order preservation: the commit blocks of the prompt are the analysed
\* commits of the range walk, in the walk's order, each once; and the files
\* a block lists are the commit's files in the backend's order.
C9_WalkOrderKept ==
    Prompted =>
        LET blocks == CommitBlocksOf(userPrompt)
            kept == AnalyzedEntries(walk)
        IN /\ [k \in 1..Len(blocks) |-> BlockHash(blocks[k])]
                 = [k \in 1..Len(kept) |-> kept[k].oid]
           /\ \A i, j \in 1..Len(blocks) :
                 i # j => BlockHash(blocks[i]) # BlockHash(blocks[j])
           /\ (detail_level # "Minimal" =>
                 \A k \in 1..Len(blocks) :
                    LET listed == PiecesOf(blocks[k], {FileLineFmt})
                        files == RawCommit(kept[k].oid).files
                    IN [i \in 1..Len(listed) |-> listed[i].args[1]]
                          = [i \in 1..Len(files) |-> Txt(files[i].path)])

\* Three analysed commits in the prompt, the two-file commit among them.
C9_Witness ==
    /\ Prompted
    /\ detail_level = "Standard"
    /\ Len(AnalyzedEntries(walk)) = 3
    /\ \E k \in 1..3 : walk[k].oid = "c3"

\* C10: a backend failure on any entry of the walk makes get_commits_between
\* return an error; it never returns Ok with the failing commit left out.
C10_WalkFailureIsError ==
    (flow = "changelog" /\ clPc # "start") =>
        ((\E k \in 1..Len(walk) : walk[k].outcome # "ok") =>
            commits.tag = "Err")

GenStopped == flow = "gen" /\ genPc = "exit"

\* C11: in the gen flow, when the commit context has no staged files, the
\* flow stops before the prompt is assembled: at every point of every run
\* the provider has not been called, no message was generated and no commit
\* was created.
C11_NoStagedFilesStopsBeforePrompt ==
    (flow = "gen" /\ genEnv.staged_files = << >>) =>
        /\ genPc \notin {"staged_ok", "prompted", "generated"}
        /\ providerCalls = << >>
        /\ generated_message = None
        /\ repoCommits = << >>

\* The flow met the empty staged list at line 27 and ended there.
C11_Witness ==
    /\ GenStopped
    /\ genEnv.staged_files = << >>
    /\ \E k \in 1..Len(genOut) : genOut[k].text = <<NoStagedChangesText>>

PreconditionUnmet(env) ==
    \/ ~env.git_installed
    \/ ~env.inside_work_tree
    \/ env.staged_files = << >>

\* C12: when a precondition of gen is not met (git missing, not inside a
\* repository, no staged changes) the gen flow ends with exit status 1 or 2,
\* never with 0.
C12_UnmetPreconditionIsError ==
    (GenStopped /\ PreconditionUnmet(genEnv)) => genExit \in {1, 2}

\* C19: a commit exists only if auto_commit was requested and the one
\* provider call returned a message before, and its message is exactly the
\* generated text; a flow that ended with auto_commit off or with a failed
\* provider call has created no commit.
C19_CommitOnlyWithGeneratedMessage ==
    flow = "gen" =>
        /\ Len(providerCalls) <= 1
        /\ repoCommits # << >> =>
              /\ genEnv.auto_commit
              /\ Len(providerCalls) = 1
              /\ genEnv.provider.tag = "Ok"
              /\ generated_message = Some(genEnv.provider.val)
              /\ repoCommits = <<genEnv.provider.val>>
        /\ (GenStopped /\ (~genEnv.auto_commit \/ genEnv.provider.tag = "Err"))
              => repoCommits = << >>

\* The commit was created with a message holding quotes, unescaped.
C19_Witness ==
    /\ GenStopped
    /\ genEnv.auto_commit
    /\ repoCommits = <<MessageQuoted>>
    /\ genExit = ExitOk

LogHolders == { t \in Threads : logPc[t] \in {"locked", "written"} }

LogInCall(t) ==
    flow = "logger" /\ logPc[t] \in {"formatted", "locked", "written"}

LogEnded(t) == flow = "logger" /\ logPc[t] \in {"idle", "panicked"}

\* The bytes of every call lie together in the file, in the order of the
\* call's record, with no byte of another call between them.
LogContiguous ==
    /\ \A i \in 1..Len(logFile) :
          logFile[i].pos =
              IF i > 1 /\ logFile[i - 1].by = logFile[i].by
              THEN logFile[i - 1].pos + 1 ELSE 1
    /\ \A i, j \in 1..Len(logFile) :
          (i < j /\ logFile[i].by = logFile[j].by) =>
              \A k \in i..j : logFile[k].by = logFile[i].by

\* What the thread holding the guard has written is the end of the file
\* and spells the beginning of its log_message: the whole timestamp, level,
\* text and newline once write_all has written every byte.
LogHolderWritesRecord(t) ==
    LET n == logWritten[t]
        base == Len(logFile) - n
    IN /\ base >= 0
       /\ \A k \in 1..n :
             /\ logFile[base + k].byte = logRecord[t][k]
             /\ logFile[base + k].by = <<t, logCalls[t]>>

LogSafe ==
    flow = "logger" =>
        /\ Cardinality(LogHolders) <= 1
        /\ \A t \in LogHolders : logMutex = Some(t)
        /\ LogHolders = {} => logMutex = None
        /\ LogContiguous
        /\ \A t \in LogHolders : LogHolderWritesRecord(t)

\* C13: at most one thread holds the log file at a time, the bytes of each
\* message are appended as one contiguous record with no byte of another
\* message in between, the guard is released when a call returns, and every
\* call that has begun ends.
C13_LogRecordsNotInterleaved ==
    /\ []LogSafe
    /\ \A t \in Threads : LogInCall(t) ~> LogEnded(t)

\* A thread waits for the guard while the other is in the middle of its
\* record, after an earlier record was written whole.
C13_Witness ==
    /\ flow = "logger"
    /\ logPc["t1"] = "locked" /\ logPc["t2"] = "formatted"
    /\ logCalls["t2"] = 2
    /\ logWritten["t1"] > 0 /\ logWritten["t1"] < Len(logRecord["t1"])
    /\ \E i \in 1..Len(logFile) :
          logFile[i].by = <<"t2", 1>> /\ logFile[i].byte = <<"\n">>

DependencySet(md) == Range(md.dependencies)

\* The list is sorted by the order of String and holds no name twice.
SortedUnique(v) == \A i \in 1..(Len(v) - 1) : str_rank(v[i]) < str_rank(v[i + 1])

\* The latest merge_metadata kept every field that was Some, took every
\* field that was None from its argument, and kept and added dependencies.
LastMergeKeepsFirst ==
    IsSome(mdLastMerge) =>
        LET before == Unwrap(mdLastMerge).combined
            new == Unwrap(mdLastMerge).new
        IN /\ \A f \in OptionalFields :
                 combined_metadata[f] =
                     IF IsSome(before[f]) THEN before[f] ELSE new[f]
           /\ DependencySet(combined_metadata) =
                  DependencySet(before) \cup DependencySet(new)

MetadataMerged ==
    flow = "metadata" =>
        /\ SortedUnique(combined_metadata.dependencies)
        /\ LastMergeKeepsFirst

MetadataMonotone ==
    flow = "metadata" =>
        /\ DependencySet(combined_metadata) \subseteq
               DependencySet(combined_metadata')
        /\ \A f \in OptionalFields :
               IsSome(combined_metadata[f]) =>
                   combined_metadata'[f] = combined_metadata[f]

\* C14: after any sequence of merge_metadata calls from the empty
\* ProjectMetadata the dependency list is sorted without duplicates and
\* contains what it held before each call, and an optional field that is
\* Some is never changed or reset by a later merge: the first contribution
\* wins.
C14_MergeMetadataMonotone == []MetadataMerged /\ [][MetadataMonotone]_vars

\* A second manifest stated another language and listed dependencies out of
\* order and twice; the first language stayed and the list grew.
C14_Witness ==
    /\ flow = "metadata"
    /\ IsSome(mdLastMerge)
    /\ Unwrap(mdLastMerge).combined.language = Some("Rust")
    /\ Unwrap(mdLastMerge).combined.dependencies = <<"serde">>
    /\ Unwrap(mdLastMerge).new.language = Some("JavaScript")
    /\ Unwrap(mdLastMerge).new.dependencies = <<"serde", "anyhow">>
    /\ combined_metadata.language = Some("Rust")
    /\ combined_metadata.dependencies = <<"anyhow", "serde">>

\* C15: the walk that aggregates project metadata skips every file the
\* exclusion set matches: no such file is read or merged into the result.
C15_WalkSkipsExcludedFiles ==
    flow = "metadata" =>
        \A path \in mdRead \cup mdMerged : ~should_exclude_file(path)

\* C16: after any sequence of Config::update calls every provider entry has
\* a custom_token_limit that is unset or positive (a requested limit of 0 is
\* not stored) and a model that is not empty.
C16_ProviderEntriesValid ==
    (AfterUpdate /\ cfgOutcome = "returned") =>
        \A p \in DOMAIN config.providers :
            /\ \/ config.providers[p].custom_token_limit = None
               \/ Unwrap(config.providers[p].custom_token_limit) > 0
            /\ config.providers[p].model # ""

Loaded == flow = "load" /\ loadResult # NoResult

\* The document states everything that is neither a boolean nor a mapping:
\* the default provider and, for every provider table, api_key and model.
StatesRequiredScalars(doc) ==
    /\ IsSome(doc.default_provider)
    /\ IsSome(doc.providers) =>
          \A p \in DOMAIN Unwrap(doc.providers) :
              /\ IsSome(Unwrap(doc.providers)[p].api_key)
              /\ IsSome(Unwrap(doc.providers)[p].model)

\* C17: Config::load succeeds when optional parts are absent: a missing
\* use_gitmoji loads as false, a missing providers map and a missing
\* additional_params load as empty mappings, and a missing file loads as
\* the default configuration.
C17_MissingOptionalPartsLoad ==
    Loaded =>
        /\ configFile.kind = "missing" => loadResult = Ok(ConfigDefault)
        /\ (configFile.kind = "document"
            /\ StatesRequiredScalars(configFile.doc)) =>
              LET doc == configFile.doc IN
              /\ loadResult.tag = "Ok"
              /\ doc.use_gitmoji = None => loadResult.val.use_gitmoji = FALSE
              /\ doc.providers = None => loadResult.val.providers = EmptyMap
              /\ IsSome(doc.providers) =>
                    \A p \in DOMAIN Unwrap(doc.providers) :
                        Unwrap(doc.providers)[p].additional_params = None =>
                            loadResult.val.providers[p].additional_params
                                = EmptyMap

ReadmeSearched == flow = "readme" /\ readmeResult # NoResult

\* The names that exist, and the one that comes first in the fixed order
\* README.md, README.txt, README, Readme.md.
ExistingReadmes ==
    { n \in DOMAIN readmeFiles : readmeFiles[n] # "absent" }

FirstExistingReadme ==
    IF "README.md" \in ExistingReadmes THEN "README.md"
    ELSE IF "README.txt" \in ExistingReadmes THEN "README.txt"
    ELSE IF "README" \in ExistingReadmes THEN "README"
    ELSE "Readme.md"

\* C18: find_and_read_readme returns the content of the first name that
\* exists in the order README.md, README.txt, README, Readme.md, never that
\* of a later one, and Ok(None), not an error, when none exists; the only
\* error is that the first existing one cannot be read.
C18_FirstReadmeOrNone ==
    ReadmeSearched =>
        IF ExistingReadmes = {} THEN readmeResult = Ok(None)
        ELSE IF readmeFiles[FirstExistingReadme] = "text"
             THEN readmeResult = Ok(Some(ReadmeContent(FirstExistingReadme)))
             ELSE readmeResult.tag = "Err"

\* README.md is absent, README.txt and README exist: the text of README.txt
\* is returned.
C18_Witness ==
    /\ ReadmeSearched
    /\ readmeFiles["README.md"] = "absent"
    /\ readmeFiles["README.txt"] = "text"
    /\ readmeFiles["README"] = "text"
    /\ readmeResult = Ok(Some(ReadmeContent("README.txt")))

TomlAnalyzed == flow = "toml" /\ tomlCalls > 0

\* C20: TomlAnalyzer::analyze is a function of the path and the diff text
\* alone and never fails: every call returns exactly ["Dependencies
\* updated"] when the path ends with Cargo.toml and the diff holds
\* "[dependencies]" or "version =", and the empty list in every other case,
\* any other .toml file and any diff that is no patch included.
C20_TomlAnalyzeDependencies ==
    TomlAnalyzed =>
        tomlResult =
            IF tomlInput.cargo_toml /\ tomlInput.dependency
            THEN <<"Dependencies updated">>
            ELSE << >>

\* A second call on a Cargo.toml of a sub-directory whose diff only changes
\* a version line.
C20_Witness ==
    /\ TomlAnalyzed
    /\ tomlCalls = 2
    /\ tomlInput.file = PathCrateCargoToml
    /\ tomlInput.diff =
          <<"-", "v", "e", "r", "s", "i", "o", "n", " ", "=", " ", "1">>
    /\ tomlResult = <<"Dependencies updated">>

\* What a call of Config::update with arguments a may change: old is the
\* Config before the call, new the Config it leaves.
UpdateFrame(old, new, a) ==
    LET d == new.default_provider IN
    /\ new.default_provider =
          IF IsSome(a.provider) THEN Unwrap(a.provider)
          ELSE old.default_provider
    /\ DOMAIN old.providers \subseteq DOMAIN new.providers
    /\ \A p \in DOMAIN new.providers \ {d} :
          /\ p \in DOMAIN old.providers
          /\ new.providers[p] = old.providers[p]
    /\ (d \in DOMAIN old.providers) =>
          LET o == old.providers[d]
              n == new.providers[d]
          IN /\ ~IsSome(a.api_key) => n.api_key = o.api_key
             /\ ~IsSome(a.model) => n.model = o.model
             /\ ~IsSome(a.token_limit) =>
                   n.custom_token_limit = o.custom_token_limit
             /\ ~IsSome(a.additional_params) =>
                   n.additional_params = o.additional_params
             /\ IsSome(a.additional_params) =>
                   \A k \in DOMAIN o.additional_params :
                      /\ k \in DOMAIN n.additional_params
                      /\ k \notin DOMAIN Unwrap(a.additional_params) =>
                            n.additional_params[k] = o.additional_params[k]
    /\ ~IsSome(a.use_gitmoji) => new.use_gitmoji = old.use_gitmoji
    /\ ~IsSome(a.custom_instructions) =>
          new.custom_instructions = old.custom_instructions
    /\ (/\ a.provider = None /\ a.api_key = None /\ a.model = None
        /\ a.additional_params = None /\ a.use_gitmoji = None
        /\ a.custom_instructions = None /\ a.token_limit = None)
       => new = old

\* What a call that returned has written into the entry of the provider that
\* is the default after it.
UpdateApplied(new, a) ==
    /\ new.default_provider \in DOMAIN new.providers
    /\ LET n == new.providers[new.default_provider] IN
          /\ IsSome(a.api_key) => n.api_key = Unwrap(a.api_key)
          /\ IsSome(a.model) => n.model = Unwrap(a.model)
          /\ IsSome(a.token_limit) => n.custom_token_limit = a.token_limit
          /\ IsSome(a.additional_params) =>
                \A k \in DOMAIN Unwrap(a.additional_params) :
                   /\ k \in DOMAIN n.additional_params
                   /\ n.additional_params[k] =
                         Unwrap(a.additional_params)[k]

Updated == flow = "frame" /\ IsSome(frameArgs)

\* C21: frame of Config::update. The default provider is the named one, or
\* stays when none is named; api_key, model, additional_params and
\* token_limit reach only the entry of the provider that is the default
\* after the call; every other entry is unchanged and none is removed; an
\* entry that already exists keeps every field whose argument is None, also
\* when the call switches to it; use_gitmoji and custom_instructions stay
\* when their argument is None; an all-None call leaves the Config equal;
\* additional_params are merged: the keys of the call are set, the other
\* stored keys keep their values.
C21_UpdateFrame ==
    Updated =>
        /\ UpdateFrame(frameOld, frameNew.config, Unwrap(frameArgs))
        /\ frameNew.outcome = "returned" =>
              UpdateApplied(frameNew.config, Unwrap(frameArgs))

\* The call switched from claude to the stored openai entry and passed only
\* the parameter temperature: the entry keeps its key, model, limit and its
\* stored top_p and gains temperature; the claude entry is as it was.
C21_Witness ==
    /\ Updated
    /\ frameOld = CustomisedConfig
    /\ Unwrap(frameArgs).provider = Some("openai")
    /\ Unwrap(frameArgs).api_key = None
    /\ Unwrap(frameArgs).additional_params =
          Some([k \in {"temperature"} |-> "0.7"])
    /\ frameNew.outcome = "returned"
    /\ frameNew.config.default_provider = "openai"
    /\ frameNew.config.providers["openai"] =
          [api_key |-> "sk-stored",
           model |-> "stored-model",
           additional_params |->
              [k \in {"temperature", "top_p"} |->
                  IF k = "top_p" THEN "0.9" ELSE "0.7"],
           custom_token_limit |-> Some(2000)]
    /\ frameNew.config.providers["claude"] = default_for("claude")

StatusScanned == flow = "status" /\ stPc = "done" /\ fileStatuses.tag = "Ok"

IndexChanged(st) ==
    st \cap {"INDEX_NEW", "INDEX_MODIFIED", "INDEX_DELETED"} # {}

WorktreeChanged(st) ==
    st \cap {"WT_MODIFIED", "WT_NEW", "WT_DELETED"} # {}

\* The positions of a path in the two lists get_file_statuses returned.
StagedAt(path) ==
    { j \in 1..Len(fileStatuses.val.staged) :
         fileStatuses.val.staged[j].path = path }

UnstagedAt(path) ==
    { j \in 1..Len(fileStatuses.val.unstaged) :
         fileStatuses.val.unstaged[j] = path }

ExpectedChangeType(st) ==
    IF "INDEX_NEW" \in st THEN "Added"
    ELSE IF "INDEX_MODIFIED" \in st THEN "Modified"
    ELSE "Deleted"

\* C22: get_file_statuses puts each status entry into at most one list. An
\* entry with an index change (new, modified or deleted) is exactly once in
\* staged_files and not in unstaged_files, also when it has working-tree
\* changes; an entry with working-tree changes only is once in
\* unstaged_files and not in staged_files; every other entry is in neither.
\* The staged change type is Added if index-new, else Modified if
\* index-modified, else Deleted, and never Renamed.
C22_StatusEntryInOneList ==
    StatusScanned =>
        /\ \A i \in 1..Len(statuses) :
              LET e == statuses[i] IN
              IF IndexChanged(e.status)
              THEN /\ Cardinality(StagedAt(e.path)) = 1
                   /\ UnstagedAt(e.path) = {}
                   /\ \A j \in StagedAt(e.path) :
                         fileStatuses.val.staged[j].change_type
                            = ExpectedChangeType(e.status)
              ELSE IF WorktreeChanged(e.status)
              THEN /\ StagedAt(e.path) = {}
                   /\ Cardinality(UnstagedAt(e.path)) = 1
              ELSE StagedAt(e.path) = {} /\ UnstagedAt(e.path) = {}
        /\ \A j \in 1..Len(fileStatuses.val.staged) :
              fileStatuses.val.staged[j].change_type
                 \in {"Added", "Modified", "Deleted"}
        /\ Len(fileStatuses.val.staged) + Len(fileStatuses.val.unstaged)
              <= Len(statuses)

\* src/build.rs is deleted in the index; src/main.rs is modified in the index
\* and again in the working tree: both are staged, Deleted and Modified, and
\* nothing is unstaged.
C22_Witness ==
    /\ StatusScanned
    /\ Len(statuses) = 2
    /\ statuses[1].path = PathBuildRs
    /\ statuses[1].status = {"INDEX_DELETED"}
    /\ statuses[2].path = PathMainRs
    /\ statuses[2].status = {"INDEX_MODIFIED", "WT_MODIFIED"}
    /\ Len(fileStatuses.val.staged) = 2
    /\ fileStatuses.val.staged[1].change_type = "Deleted"
    /\ fileStatuses.val.staged[2].path = PathMainRs
    /\ fileStatuses.val.staged[2].change_type = "Modified"
    /\ fileStatuses.val.unstaged = << >>

\* The components of a path: the maximal runs without a slash.
Components(path) ==
    { SubSeq(path, i, j) :
         <<i, j>> \in
            { ij \in (1..Len(path)) \X (1..Len(path)) :
                 /\ ij[1] <= ij[2]
                 /\ (ij[1] = 1 \/ path[ij[1] - 1] = "/")
                 /\ (ij[2] = Len(path) \/ path[ij[2] + 1] = "/")
                 /\ \A k \in ij[1]..ij[2] : path[k] # "/" } }

\* The exclusion set read as names of path components and as file
\* extensions: the first twelve patterns name a directory or a file, the
\* last six an extension.
ExcludedComponents == { exclude_patterns[k] : k \in 1..12 }

ExcludedExtensions == { exclude_patterns[k] : k \in 13..18 }

ComponentExcluded(path) ==
    \/ Components(path) \cap ExcludedComponents # {}
    \/ \E ext \in ExcludedExtensions : ends_with(path, ext)

\* C23 as stated: a staged path is marked content_excluded only when one of
\* its components or its extension belongs to the exclusion set; every
\* other path, src/build.rs and .gitignore included, is not excluded and
\* carries the diff get_diff_for_file gives for it and its analyzer's
\* analysis.
C23_ExcludesOnlyComponentsOrExtensions ==
    StatusScanned =>
        \A j \in 1..Len(fileStatuses.val.staged) :
           LET f == fileStatuses.val.staged[j] IN
           ~ComponentExcluded(f.path) =>
               /\ ~f.content_excluded
               /\ f.diff = get_diff_for_file(f.path)
               /\ f.analysis = analyze(f.path, get_diff_for_file(f.path))

====
